---------------------------- MODULE Spec2Model ----------------------------
(***************************************************************************)
(* Verification model of the Intervexa scoring core.                       *)
(*                                                                         *)
(*   - FusionEngine            (Fusion Model/ai_engine/fusion_engine.py)   *)
(*   - FacialExpressionModel   (Facial_Model/.../Facial_AI_Module.py)      *)
(*   - VocalToneAnalyzer       (Voice_Model/ai_engine/vocal_analysis.py)   *)
(*   - NLPAnalyzer             (NLP_Evaluation/ai_engine/nlp_analysis.py)  *)
(*                                                                         *)
(* Numbers.  Python floats are modelled in fixed point:                    *)
(*   fusion scores          : hundredths of a point  (75.0  -> 7500)       *)
(*   fusion raw score       : thousandths of a point                       *)
(*   emotion probabilities  : whole percent points                         *)
(*   facial metric sums     : hundredths of a point                        *)
(*   facial metrics, eye    : tenths of a point      (50.0  -> 500)        *)
(* round(x, n) is round-to-nearest; on an exact decimal tie the binary     *)
(* float decides the direction, so both neighbours are possible results.   *)
(* IEEE NaN and infinities are outside the model.                          *)
(*                                                                         *)
(* Strings are sequences of one-character strings, so that str.lower()     *)
(* and str.strip() are computed and not assumed.                           *)
(***************************************************************************)
EXTENDS Integers, Sequences, FiniteSets, TLC

VARIABLES
    fusion,          \* last fuse_scores call: arguments and outcome
    metrics_call,    \* last direct _compute_interview_metrics call
    history_size,    \* FacialExpressionModel.history_size
    emotion_history, \* FacialExpressionModel.emotion_history (deque)
    frame_count,     \* FacialExpressionModel.frame_count
    session,         \* FacialExpressionModel._session
    frame_result,    \* what the last analyze_frame call returned
    report,          \* what the last get_session_feedback call returned
    now,             \* time.time(), in clock ticks
    ties_up,         \* how round() settles the model's exact decimal ties
    most_common,     \* last direct _get_most_common_emotion call
    voice,           \* last analyze_tone / analyze_tone_quick call
    nlp,             \* last evaluate_answer call
    update,          \* the analyze_frame call in progress on another thread
    stt,             \* STTEngine's class attributes and the get_instance callers
    questions,       \* last generate_questions call
    qualitative      \* last direct _qualitative call

vars == <<fusion, metrics_call, history_size, emotion_history, frame_count,
          session, frame_result, report, now, ties_up, most_common, voice, nlp,
          update, stt, questions, qualitative>>

\* The calls of the other components, and the rounding direction
callVars == <<ties_up, most_common, voice, nlp, update, stt, questions,
              qualitative>>

\* The variables of the components added last
lateVars == <<update, stt, questions, qualitative>>

faceVars == <<history_size, emotion_history, frame_count, session,
              frame_result, report, now>>

(***************************************************************************)
(* Python builtins                                                         *)
(***************************************************************************)

Abs(x) == IF x < 0 THEN -x ELSE x

Min2(a, b) == IF b < a THEN b ELSE a

Max2(a, b) == IF b > a THEN b ELSE a

\* round(): x is a fixed-point value, m the number of x-units in one unit of
\* the result.  The set of values round() can return.
PyRound(x, m) ==
    LET lo == x \div m
        r  == x % m
    IN  IF 2 * r < m THEN {lo}
        ELSE IF 2 * r > m THEN {lo + 1}
        ELSE {lo, lo + 1}

\* round() is a function: the same float rounds the same way every time.
\* up tells which neighbour the exact decimal ties of the model go to.
RoundBy(x, m, up) ==
    LET c == PyRound(x, m)
    IN  CHOOSE v \in c : \A o \in c : IF up THEN v >= o ELSE v <= o

LowerChar(c) ==
    CASE c = "A" -> "a" [] c = "B" -> "b" [] c = "C" -> "c" [] c = "D" -> "d"
      [] c = "E" -> "e" [] c = "F" -> "f" [] c = "G" -> "g" [] c = "H" -> "h"
      [] c = "I" -> "i" [] c = "J" -> "j" [] c = "K" -> "k" [] c = "L" -> "l"
      [] c = "M" -> "m" [] c = "N" -> "n" [] c = "O" -> "o" [] c = "P" -> "p"
      [] c = "Q" -> "q" [] c = "R" -> "r" [] c = "S" -> "s" [] c = "T" -> "t"
      [] c = "U" -> "u" [] c = "V" -> "v" [] c = "W" -> "w" [] c = "X" -> "x"
      [] c = "Y" -> "y" [] c = "Z" -> "z" [] OTHER -> c

\* str.lower()
Lower(s) == [i \in 1..Len(s) |-> LowerChar(s[i])]

IsSpace(c) == c \in {" ", "\t", "\n"}

RECURSIVE LStrip(_)
LStrip(s) == IF s # <<>> /\ IsSpace(Head(s)) THEN LStrip(Tail(s)) ELSE s

RECURSIVE RStrip(_)
RStrip(s) ==
    IF s # <<>> /\ IsSpace(s[Len(s)]) THEN RStrip(SubSeq(s, 1, Len(s) - 1))
    ELSE s

\* str.strip()
Strip(s) == RStrip(LStrip(s))

DigitValue(c) ==
    CASE c = "0" -> 0 [] c = "1" -> 1 [] c = "2" -> 2 [] c = "3" -> 3
      [] c = "4" -> 4 [] c = "5" -> 5 [] c = "6" -> 6 [] c = "7" -> 7
      [] c = "8" -> 8 [] c = "9" -> 9 [] OTHER -> -1

RECURSIVE DigitsValue(_, _)
DigitsValue(s, acc) ==
    IF s = <<>> THEN acc
    ELSE DigitsValue(Tail(s), 10 * acc + DigitValue(Head(s)))

AllDigits(s) == s # <<>> /\ \A i \in 1..Len(s) : DigitValue(s[i]) >= 0

\* float(): [ok, v] with v in hundredths.  A number converts to itself; a
\* string is stripped and parsed as an optionally signed run of digits and
\* raises ValueError otherwise; None and containers raise TypeError.
\* (Decimal points, exponents, "nan" and "inf" are not among the inputs.)
PyFloat(x) ==
    CASE x.t = "num" -> [ok |-> TRUE, err |-> "", v |-> x.v]
      [] x.t = "str" ->
            LET s    == Strip(x.s)
                neg  == s # <<>> /\ Head(s) = "-"
                body == IF s # <<>> /\ Head(s) \in {"-", "+"} THEN Tail(s) ELSE s
            IN  IF AllDigits(body)
                THEN [ok |-> TRUE, err |-> "",
                      v |-> (IF neg THEN -1 ELSE 1) * 100 * DigitsValue(body, 0)]
                ELSE [ok |-> FALSE, err |-> "ValueError", v |-> 0]
      [] OTHER -> [ok |-> FALSE, err |-> "TypeError", v |-> 0]

(***************************************************************************)
(* String literals of the source and of the inputs                         *)
(***************************************************************************)

S_NA == <<"N", "/", "A">>

S_None == <<"N", "o", "n", "e">>

S_Confident == <<"C", "o", "n", "f", "i", "d", "e", "n", "t">>

S_Neutral == <<"N", "e", "u", "t", "r", "a", "l">>

S_Nervous == <<"N", "e", "r", "v", "o", "u", "s">>

S_NERVOUS == <<"N", "E", "R", "V", "O", "U", "S">>

S_Monotone == <<"M", "o", "n", "o", "t", "o", "n", "e">>

S_Disgust == <<"D", "i", "s", "g", "u", "s", "t">>

S_Happy == <<"H", "a", "p", "p", "y">>

S_SadPadded == <<" ", "s", "a", "d", " ">>

S_Calm == <<"C", "a", "l", "m">>

S_Blank == <<" ", " ">>

S_abc == <<"a", "b", "c">>

S_85 == <<"8", "5">>

S_70Padded == <<" ", "7", "0", " ">>

S_Minus5 == <<"-", "5">>

\* _build_emotion_summary: _NEGATIVE_FACE
NEGATIVE_FACE ==
    {<<"n", "e", "r", "v", "o", "u", "s">>,
     <<"a", "n", "g", "r", "y">>,
     <<"s", "a", "d">>,
     <<"f", "e", "a", "r">>,
     <<"d", "i", "s", "g", "u", "s", "t">>,
     <<"a", "n", "x", "i", "o", "u", "s">>,
     <<"c", "o", "n", "f", "u", "s", "e", "d">>,
     <<"f", "r", "u", "s", "t", "r", "a", "t", "e", "d">>}

\* _build_emotion_summary: _NEGATIVE_VOICE
NEGATIVE_VOICE ==
    {<<"n", "e", "r", "v", "o", "u", "s">>,
     <<"a", "n", "g", "r", "y">>,
     <<"s", "a", "d">>,
     <<"f", "e", "a", "r">>,
     <<"a", "n", "x", "i", "o", "u", "s">>,
     <<"m", "o", "n", "o", "t", "o", "n", "e">>,
     <<"h", "e", "s", "i", "t", "a", "n", "t">>}

(***************************************************************************)
(* FusionEngine                                                            *)
(***************************************************************************)

\* VOICE_WEIGHT = 0.6 and FACE_WEIGHT = 0.4, in tenths
VOICE_WEIGHT == 6

FACE_WEIGHT == 4

\* _FEEDBACK_RULES with whole-number upper bounds: a gap below each tier
FEEDBACK_RULES_Gaps ==
    << [min |-> 9000, max |-> 10000, label |-> "Outstanding", feedback |-> ""],
       [min |-> 8000, max |-> 8900, label |-> "Excellent", feedback |-> ""],
       [min |-> 7000, max |-> 7900, label |-> "Good", feedback |-> ""],
       [min |-> 6000, max |-> 6900, label |-> "Satisfactory", feedback |-> ""],
       [min |-> 5000, max |-> 5900, label |-> "Needs Improvement", feedback |-> ""],
       [min |-> 0, max |-> 4900, label |-> "Poor", feedback |-> ""] >>

\* _FEEDBACK_RULES, bounds in hundredths of a point, in the order of the list
FEEDBACK_RULES ==
    << [min |-> 9000, max |-> 10000, label |-> "Outstanding",
        feedback |-> "Outstanding non-verbal communication! Your voice and facial expressions were highly aligned and confident."],
       [min |-> 8000, max |-> 8999, label |-> "Excellent",
        feedback |-> "Excellent non-verbal communication. You demonstrated strong vocal control and positive facial cues."],
       [min |-> 7000, max |-> 7999, label |-> "Good",
        feedback |-> "Good performance. Minor improvements in either vocal tone or facial expression could elevate your delivery."],
       [min |-> 6000, max |-> 6999, label |-> "Satisfactory",
        feedback |-> "Satisfactory performance. Consider practicing a more steady tone and maintaining natural facial expressions."],
       [min |-> 5000, max |-> 5999, label |-> "Needs Improvement",
        feedback |-> "Your delivery needs improvement. Focus on projecting confidence through your voice and keeping consistent eye contact."],
       [min |-> 0, max |-> 4999, label |-> "Poor",
        feedback |-> "Try to maintain better eye contact and a steady voice. Practice speaking clearly and keeping a calm, composed facial expression."] >>

\* A value of a dict entry: t is "missing" (no such key), "none" (None),
\* "list" (a container), "num" (v, hundredths) or "str" (s).
Val(t, v, s) == [t |-> t, v |-> v, s |-> s]

MissingVal == Val("missing", 0, <<>>)

NoneVal == Val("none", 0, <<>>)

ListVal == Val("list", 0, <<>>)

Num(v) == Val("num", v, <<>>)

Str(s) == Val("str", 0, s)

\* An argument of fuse_scores: None, a dict, or an object that is neither.
NoneData == [kind |-> "None", score |-> MissingVal, emotion |-> MissingVal]

NonDictData == [kind |-> "other", score |-> MissingVal, emotion |-> MissingVal]

Dict(score, emotion) == [kind |-> "dict", score |-> score, emotion |-> emotion]

\* str() of an emotion entry
PyStr(x) == IF x.t = "str" THEN x.s ELSE S_None

\* ExtractScore without the except clause: the conversion error escapes
ExtractScoreUncaught(data) ==
    LET got == IF data.score.t = "missing" THEN Num(0) ELSE data.score
        f   == PyFloat(got)
    IN  [raised |-> ~f.ok, v |-> f.v]

\* _extract, lines 179-182: `float(data.get("score", 0))` with both exceptions
\* caught.  [raised, v]
ExtractScore(data) ==
    LET got == IF data.score.t = "missing" THEN Num(0) ELSE data.score
        f   == PyFloat(got)
    IN  [raised |-> FALSE, v |-> IF f.ok THEN f.v ELSE 0]

\* _extract, line 184
ExtractEmotion(data) ==
    LET got == IF data.emotion.t = "missing" THEN S_NA ELSE PyStr(data.emotion)
        s   == Strip(got)
    IN  IF s = <<>> THEN S_NA ELSE s

\* _extract: [raised, score, emotion].  `data.get` on an object that is not a
\* dict raises AttributeError, which nothing catches.
Extract(data) ==
    IF data.kind = "None"
    THEN [raised |-> FALSE, score |-> 0, emotion |-> S_NA]
    ELSE IF data.kind # "dict"
    THEN [raised |-> TRUE, score |-> 0, emotion |-> <<>>]
    ELSE LET sc == ExtractScore(data)
         IN  [raised |-> sc.raised, score |-> sc.v,
              emotion |-> IF sc.raised THEN <<>> ELSE ExtractEmotion(data)]

\* Clamp left out
ClampNone(raw) == raw

\* fuse_scores, line 145: min(max(raw_score, 0.0), 100.0), in thousandths
Clamp(raw) == Min2(Max2(raw, 0), 100000)

\* The indices of the rules whose range holds the score
MatchingRules(score) ==
    {i \in 1..Len(FEEDBACK_RULES) :
        FEEDBACK_RULES[i].min <= score /\ score <= FEEDBACK_RULES[i].max}

\* _get_feedback: the first rule in list order that matches, else the fallback
GetFeedback(score) ==
    LET m == MatchingRules(score)
    IN  IF m = {}
        THEN [label |-> "Unknown",
              feedback |-> "Unable to determine feedback for this score."]
        ELSE LET i == CHOOSE k \in m : \A j \in m : k <= j
             IN  [label |-> FEEDBACK_RULES[i].label,
                  feedback |-> FEEDBACK_RULES[i].feedback]

\* Conjunction without .lower(): a case-sensitive comparison
ConjunctionCaseSensitive(voice_emotion, face_emotion) ==
    LET face_is_negative  == face_emotion \in NEGATIVE_FACE
        voice_is_negative == voice_emotion \in NEGATIVE_VOICE
    IN  IF face_is_negative # voice_is_negative THEN "but" ELSE "and"

\* _build_emotion_summary, lines 224-230
Conjunction(voice_emotion, face_emotion) ==
    LET face_is_negative  == Lower(face_emotion) \in NEGATIVE_FACE
        voice_is_negative == Lower(voice_emotion) \in NEGATIVE_VOICE
    IN  IF face_is_negative # voice_is_negative THEN "but" ELSE "and"

\* _build_emotion_summary: the parts of the f-string, in order
BuildEmotionSummary(voice_emotion, face_emotion) ==
    << "Your tone was ", voice_emotion, ", ",
       Conjunction(voice_emotion, face_emotion),
       " your facial expression appeared ", face_emotion, "." >>

RaisedResult ==
    [raised |-> TRUE, final_score |-> 0, label |-> "", feedback |-> "",
     voice_emotion |-> <<>>, face_emotion |-> <<>>, emotion_summary |-> <<>>]

\* fuse_scores: the set of outcomes of one call
FuseScores(voice_data, face_data) ==
    LET v == Extract(voice_data)
        f == Extract(face_data)
    IN  IF v.raised \/ f.raised THEN {RaisedResult}
        ELSE LET raw_score == VOICE_WEIGHT * v.score + FACE_WEIGHT * f.score
             IN  { [raised |-> FALSE,
                    final_score |-> final_score,
                    label |-> GetFeedback(final_score).label,
                    feedback |-> GetFeedback(final_score).feedback,
                    voice_emotion |-> v.emotion,
                    face_emotion |-> f.emotion,
                    emotion_summary |-> BuildEmotionSummary(v.emotion, f.emotion)]
                   : final_score \in PyRound(Clamp(raw_score), 10) }

(***************************************************************************)
(* FacialExpressionModel: stabiliser and metric scorer                     *)
(***************************************************************************)

\* The facial emotion vocabulary, in the sorted order np.unique returns
LABELS == <<"angry", "disgust", "fear", "happy", "neutral", "sad", "surprise">>

LabelSet == {LABELS[i] : i \in 1..Len(LABELS)}

Rank(label) == CHOOSE i \in 1..Len(LABELS) : LABELS[i] = label

\* dict.get(key, 0.0) on an emotion distribution
Get(d, key) == IF key \in DOMAIN d THEN d[key] ELSE 0

\* A deque without maxlen: nothing is ever evicted
DequeAppendUnbounded(buf, item, maxlen) == Append(buf, item)

\* deque(maxlen=history_size).append: the oldest entry leaves a full buffer
DequeAppend(buf, item, maxlen) ==
    IF maxlen = 0 THEN buf
    ELSE IF Len(buf) >= maxlen THEN Append(Tail(buf), item)
    ELSE Append(buf, item)

\* A clear() that leaves the deque as it is
DequeClearNothing(buf) == buf

\* deque.clear()
DequeClear(buf) == <<>>

Count(buf, label) == Cardinality({i \in 1..Len(buf) : buf[i] = label})

\* A most-common that settles ties by the label that entered the buffer first
GetMostCommonEmotionFirstSeen(buf) ==
    IF buf = <<>> THEN ""
    ELSE LET present == {buf[i] : i \in 1..Len(buf)}
             best == {l \in present : \A o \in present : Count(buf, l) >= Count(buf, o)}
             first(l) == CHOOSE i \in 1..Len(buf) :
                            buf[i] = l /\ \A j \in 1..(i - 1) : buf[j] # l
         IN  CHOOSE l \in best : \A o \in best : first(l) <= first(o)

\* _get_most_common_emotion: np.unique sorts the labels and np.argmax takes
\* the first maximum.  "" stands for None (both are falsy at line 281).
GetMostCommonEmotion(buf) ==
    IF buf = <<>> THEN ""
    ELSE LET present == {buf[i] : i \in 1..Len(buf)}
             best == {l \in present : \A o \in present : Count(buf, l) >= Count(buf, o)}
         IN  CHOOSE l \in best : \A o \in best : Rank(l) <= Rank(o)

\* Confidence weights with neutral and surprise exchanged
CONFIDENCE_WEIGHTS_Swapped ==
    [happy |-> 100, neutral |-> 40, surprise |-> 65, angry |-> 25,
     disgust |-> 15, sad |-> 10, fear |-> 5]

\* _compute_interview_metrics, lines 167-175: weights in hundredths
CONFIDENCE_WEIGHTS ==
    [happy |-> 100, neutral |-> 65, surprise |-> 40, angry |-> 25,
     disgust |-> 15, sad |-> 10, fear |-> 5]

\* _compute_interview_metrics, lines 179-187: weights in hundredths
NERVOUSNESS_WEIGHTS ==
    [fear |-> 100, sad |-> 70, surprise |-> 50, disgust |-> 40,
     angry |-> 30, neutral |-> 10, happy |-> 0]

RECURSIVE WeightedSum(_, _, _)
WeightedSum(d, weights, i) ==
    IF i > Len(LABELS) THEN 0
    ELSE weights[LABELS[i]] * Get(d, LABELS[i]) + WeightedSum(d, weights, i + 1)

\* np.clip left out
ClipNone(x) == x

\* np.clip(x, 0, 100), in hundredths
Clip(x) == Min2(Max2(x, 0), 10000)

\* lines 191-196, in hundredths; eye_contact_score in tenths
EngagementRaw(all_emotions, eye_contact_score, is_face_present) ==
    LET emotion_activity == 100 - Get(all_emotions, "neutral")
    IN  5 * eye_contact_score
        + 30 * emotion_activity
        + 20 * (IF is_face_present THEN 100 ELSE 0)

ZeroMetrics == [confidence |-> 0, nervousness |-> 0, engagement |-> 0]

\* The guard of line 155 left out
MetricsGuardNone(all_emotions, is_face_present) == FALSE

\* line 155: the guard that forces the zero result
MetricsGuard(all_emotions, is_face_present) ==
    ~is_face_present \/ DOMAIN all_emotions = {}

\* _compute_interview_metrics: the set of results one call can return, each
\* metric in tenths
ComputeInterviewMetrics(all_emotions, eye_contact_score, is_face_present) ==
    IF MetricsGuard(all_emotions, is_face_present) THEN {ZeroMetrics}
    ELSE LET confidence  == Clip(WeightedSum(all_emotions, CONFIDENCE_WEIGHTS, 1))
             nervousness == Clip(WeightedSum(all_emotions, NERVOUSNESS_WEIGHTS, 1))
             engagement  == Clip(EngagementRaw(all_emotions, eye_contact_score,
                                               is_face_present))
         IN  { [confidence |-> c, nervousness |-> n, engagement |-> e] :
                 c \in PyRound(confidence, 10),
                 n \in PyRound(nervousness, 10),
                 e \in PyRound(engagement, 10) }

\* _detect_eye_contact, in tenths: the Haar cascades report how many faces
\* and how many eyes inside the largest face they found
DetectEyeContact(haar) ==
    IF haar.faces = 0 THEN 0
    ELSE IF haar.eyes >= 1 THEN 1000 ELSE 500

(***************************************************************************)
(* FacialExpressionModel: session, analyze_frame, get_session_feedback     *)
(***************************************************************************)

\* _init_session
InitSession(t) ==
    [start_time |-> t,
     confidence |-> <<>>,
     nervousness |-> <<>>,
     engagement |-> <<>>,
     eye_contact |-> <<>>,
     emotions |-> <<>>,
     face_present_count |-> 0,
     total_analyzed |-> 0]

\* No analyze_frame result / no report is at hand: the last call was another
\* operation, or there was none.
NoResult == [none |-> TRUE]

NoReport == [none |-> TRUE]

\* analyze_frame, lines 221-277: the locals after steps 1 and 2, and the
\* emotion history.  Optional values are <<>> (None) or <<value>>.
\* The classifier's probabilities are whole points here, so round(conf, 2)
\* leaves them as they are.  A raise is DeepFace.analyze's own (or an empty
\* result list's IndexError): it happens before any local is assigned.
FrameLocals(haar, deep, history, maxlen) ==
    LET eye == IF haar.raises THEN 0 ELSE DetectEyeContact(haar)
    IN  IF deep.raises
        THEN [is_face_present |-> FALSE, eye_contact_score |-> 0,
              emotion |-> "neutral", raw_emotion |-> "neutral",
              confidence |-> 0, all_emotions |-> <<>>, face_coords |-> <<>>,
              error_msg |-> <<deep.msg>>, success |-> FALSE,
              history |-> history]
        ELSE IF deep.region.w > 0 /\ deep.region.h > 0
        THEN [is_face_present |-> TRUE, eye_contact_score |-> eye,
              emotion |-> deep.dominant_emotion,
              raw_emotion |-> deep.dominant_emotion,
              confidence |-> Get(deep.emotion, deep.dominant_emotion),
              all_emotions |-> deep.emotion,
              face_coords |-> <<deep.region>>,
              error_msg |-> <<>>, success |-> TRUE,
              history |-> DequeAppend(history, deep.dominant_emotion, maxlen)]
        ELSE [is_face_present |-> FALSE, eye_contact_score |-> eye,
              emotion |-> "neutral", raw_emotion |-> "neutral",
              confidence |-> 0, all_emotions |-> <<>>, face_coords |-> <<>>,
              error_msg |-> <<>>, success |-> FALSE,
              history |-> history]

\* The reported label without stabilisation: the frame's own label
StabilisedRaw(loc) == loc.emotion

\* analyze_frame, lines 279-282
Stabilised(loc) ==
    LET stabilised == GetMostCommonEmotion(loc.history)
    IN  IF stabilised # "" /\ loc.is_face_present THEN stabilised
        ELSE loc.emotion

\* Session tracking that appends for every frame, face or not
RecordFrameAlways(s, loc, emotion, interview_metrics) ==
    [s EXCEPT
        !.total_analyzed = @ + 1,
        !.face_present_count = IF loc.is_face_present THEN @ + 1 ELSE @,
        !.confidence = Append(@, interview_metrics.confidence),
        !.nervousness = Append(@, interview_metrics.nervousness),
        !.engagement = Append(@, interview_metrics.engagement),
        !.eye_contact = Append(@, loc.eye_contact_score),
        !.emotions = Append(@, emotion)]

\* Session tracking that counts a face on every frame
RecordFrameCountingFaces(s, loc, emotion, interview_metrics) ==
    IF loc.is_face_present
    THEN RecordFrameAlways(s, loc, emotion, interview_metrics)
    ELSE [s EXCEPT !.total_analyzed = @ + 1, !.face_present_count = @ + 1]

\* analyze_frame, lines 289-297
RecordFrame(s, loc, emotion, interview_metrics) ==
    IF loc.is_face_present
    THEN [s EXCEPT
            !.total_analyzed = @ + 1,
            !.face_present_count = @ + 1,
            !.confidence = Append(@, interview_metrics.confidence),
            !.nervousness = Append(@, interview_metrics.nervousness),
            !.engagement = Append(@, interview_metrics.engagement),
            !.eye_contact = Append(@, loc.eye_contact_score),
            !.emotions = Append(@, emotion)]
    ELSE [s EXCEPT !.total_analyzed = @ + 1]

\* analyze_frame, lines 299-311
FrameResult(loc, emotion, interview_metrics) ==
    [success |-> loc.success,
     emotion |-> emotion,
     raw_emotion |-> loc.raw_emotion,
     confidence |-> loc.confidence,
     facial_score |-> loc.confidence,
     eye_contact_score |-> loc.eye_contact_score,
     is_face_present |-> loc.is_face_present,
     all_emotions |-> loc.all_emotions,
     face_coordinates |-> loc.face_coords,
     interview_metrics |-> interview_metrics,
     error |-> loc.error_msg]

\* _qualitative: thresholds in tenths, highest first
TEMPLATES ==
    [confidence |-> <<
        [threshold |-> 800, text |-> "Excellent confidence! You appeared very self-assured and composed throughout."],
        [threshold |-> 600, text |-> "Good confidence level. You appeared fairly confident most of the time."],
        [threshold |-> 400, text |-> "Moderate confidence. Try to maintain a calm, positive expression."],
        [threshold |-> 0, text |-> "Low confidence detected. Practice maintaining a relaxed, positive demeanour."] >>,
     nervousness |-> <<
        [threshold |-> 600, text |-> "High nervousness detected. Consider deep-breathing exercises before interviews."],
        [threshold |-> 400, text |-> "Moderate nervousness. You showed some signs of discomfort - practice can help."],
        [threshold |-> 200, text |-> "Slight nervousness, but mostly calm. Well managed overall."],
        [threshold |-> 0, text |-> "Very calm and composed. Minimal signs of nervousness - great job!"] >>,
     engagement |-> <<
        [threshold |-> 800, text |-> "Excellent engagement! You were expressive and attentive throughout."],
        [threshold |-> 600, text |-> "Good engagement. You showed interest and stayed mostly attentive."],
        [threshold |-> 400, text |-> "Moderate engagement. Try to show more interest through expressions."],
        [threshold |-> 0, text |-> "Low engagement detected. Work on being more expressive and maintaining attention."] >>,
     eye_contact |-> <<
        [threshold |-> 800, text |-> "Great eye contact! You maintained a strong connection with the camera."],
        [threshold |-> 600, text |-> "Good eye contact overall, with occasional glances away."],
        [threshold |-> 400, text |-> "Moderate eye contact. Try to look at the camera more consistently."],
        [threshold |-> 0, text |-> "Low eye contact. Practice looking directly at the camera during responses."] >>,
     overall |-> <<
        [threshold |-> 800, text |-> "Outstanding performance! You demonstrated strong interview presence."],
        [threshold |-> 600, text |-> "Good performance overall. A few areas to polish for perfection."],
        [threshold |-> 400, text |-> "Fair performance. Focused practice on the weaker areas will help a lot."],
        [threshold |-> 0, text |-> "Needs improvement. Review each metric and practice targeted exercises."] >>]

\* The tiers tried from the lowest threshold upward: the last match wins
QualitativeLastMatch(metric, score) ==
    IF metric \notin DOMAIN TEMPLATES THEN ""
    ELSE LET tiers == TEMPLATES[metric]
             hit   == {i \in 1..Len(tiers) : score >= tiers[i].threshold}
         IN  IF hit = {} THEN ""
             ELSE tiers[CHOOSE i \in hit : \A j \in hit : i >= j].text

\* _qualitative: the first tier, in list order, with score >= threshold
Qualitative(metric, score) ==
    IF metric \notin DOMAIN TEMPLATES THEN ""
    ELSE LET tiers == TEMPLATES[metric]
             hit   == {i \in 1..Len(tiers) : score >= tiers[i].threshold}
         IN  IF hit = {} THEN ""
             ELSE tiers[CHOOSE i \in hit : \A j \in hit : i <= j].text

RECURSIVE SeqSum(_)
SeqSum(q) == IF q = <<>> THEN 0 ELSE Head(q) + SeqSum(Tail(q))

\* get_session_feedback, lines 332-338: round(_avg(lst), 1), in tenths
RoundedAvg(lst, up) ==
    IF lst = <<>> THEN 0 ELSE RoundBy(SeqSum(lst), Len(lst), up)

\* Overall weights with confidence and eye contact exchanged
OverallRaw_Swapped(avg_conf, avg_nerv, avg_eng, avg_eye) ==
    20 * avg_conf + 25 * (1000 - avg_nerv) + 25 * avg_eng + 30 * avg_eye

\* get_session_feedback, lines 341-347: tenths in, thousandths before rounding
OverallRaw(avg_conf, avg_nerv, avg_eng, avg_eye) ==
    30 * avg_conf + 25 * (1000 - avg_nerv) + 25 * avg_eng + 20 * avg_eye

\* get_session_feedback, lines 350-355
EmotionDistribution(emotions) ==
    [e \in {emotions[i] : i \in 1..Len(emotions)} |-> Count(emotions, e)]

\* An empty session reported as a report of zeroed scores
EmptySessionReport_Zeroed ==
    [duration_seconds |-> 0, total_frames_analyzed |-> 0,
     face_presence_rate |-> 0, avg_confidence |-> 0, avg_nervousness |-> 0,
     avg_engagement |-> 0, avg_eye_contact |-> 0, overall_score |-> 0]

\* get_session_feedback, lines 326-327
EmptySessionReport == [error |-> "No frames were analyzed during this session."]

\* A session counts as empty as long as no face was seen
IsEmptySessionWithoutFace(s) == s.face_present_count = 0

\* get_session_feedback, lines 325-326: "if total == 0"
IsEmptySession(s) == s.total_analyzed = 0

\* get_session_feedback: the report one call returns at clock t.  The clock
\* counts twentieths of a second; rates and scores are in tenths.
SessionFeedback(s, t, up) ==
    IF IsEmptySession(s) THEN EmptySessionReport
    ELSE LET duration  == RoundBy(t - s.start_time, 2, up)
             face_rate == RoundBy(s.face_present_count * 1000, s.total_analyzed, up)
             avg_conf  == RoundedAvg(s.confidence, up)
             avg_nerv  == RoundedAvg(s.nervousness, up)
             avg_eng   == RoundedAvg(s.engagement, up)
             avg_eye   == RoundedAvg(s.eye_contact, up)
             overall   == RoundBy(OverallRaw(avg_conf, avg_nerv, avg_eng, avg_eye),
                                  100, up)
         IN  [duration_seconds |-> duration,
              total_frames_analyzed |-> s.total_analyzed,
              face_presence_rate |-> face_rate,
              avg_confidence |-> avg_conf,
              avg_nervousness |-> avg_nerv,
              avg_engagement |-> avg_eng,
              avg_eye_contact |-> avg_eye,
              overall_score |-> overall,
              emotion_distribution |-> EmotionDistribution(s.emotions),
              confidence_feedback |-> Qualitative("confidence", avg_conf),
              nervousness_feedback |-> Qualitative("nervousness", avg_nerv),
              engagement_feedback |-> Qualitative("engagement", avg_eng),
              eye_contact_feedback |-> Qualitative("eye_contact", avg_eye),
              overall_feedback |-> Qualitative("overall", overall)]

(***************************************************************************)
(* VocalToneAnalyzer: scoring functions                                    *)
(*                                                                         *)
(* Acoustic features are fixed-point numbers:                              *)
(*   duration                       hundredths of a second                 *)
(*   voiced_ratio, pitch_cv, zcr_mean, rms_mean, jitter, shimmer           *)
(*                                  thousandths                            *)
(*   rms_cv, pause_ratio            hundredths                             *)
(*   syllable_rate, w2v_*           tenths                                 *)
(*   pitch_mean, spectral_centroid_mean   Hz;  pause_count   a count       *)
(* A component score is kept in 840ths of a point, which makes the         *)
(* divisions by 35, 40 and 3 exact; a weighted blend, with weights in      *)
(* hundredths, is in 84000ths.  Reported scores are in tenths.             *)
(***************************************************************************)

\* x points, in 840ths
Points(x) == 840 * x

\* _clamp without its bounds
VocalClampNone(val, lo, hi) == val

\* _clamp(val, lo, hi)
VocalClamp(val, lo, hi) == Max2(lo, Min2(hi, val))

\* line 285, in 840ths
ClarityArticulation(sig) ==
    VocalClamp(24 * (sig.spectral_centroid_mean - 500), 0, Points(100))

\* _score_clarity_confidence, lines 283-296: clarity in 84000ths
ClarityRaw(sig, w2v) ==
    LET clarity_voiced == 84 * sig.voiced_ratio
        clarity_articulation == ClarityArticulation(sig)
        clarity_noise == VocalClamp(Points(100) - 840 * sig.zcr_mean, 0, Points(100))
        clarity_deep == VocalClamp(252 * w2v.w2v_activation_energy, 0, Points(100))
    IN  30 * clarity_voiced + 25 * clarity_articulation
        + 20 * clarity_noise + 25 * clarity_deep

\* line 300, in 840ths
ConfVolume(sig) == VocalClamp(Points(100) - 1260 * sig.rms_cv, 0, Points(100))

\* _score_clarity_confidence, lines 300-315: confidence in 84000ths
ConfidenceRaw(sig, w2v) ==
    LET conf_volume == ConfVolume(sig)
        conf_pitch == VocalClamp(Points(100) - 168 * sig.pitch_cv, 0, Points(100))
        sr_norm == sig.syllable_rate
        conf_rate == VocalClamp(Points(100) - 2520 * Abs(sr_norm - 45), 0, Points(100))
        conf_pause == VocalClamp(Points(100) - 2520 * sig.pause_ratio, 0, Points(100))
        conf_deep == VocalClamp(Points(100) - 1680 * w2v.w2v_mean_std, 0, Points(100))
    IN  25 * conf_volume + 20 * conf_pitch + 20 * conf_rate
        + 15 * conf_pause + 20 * conf_deep

\* _score_clarity_confidence: the results one call can return
ScoreClarityConfidence(sig, w2v) ==
    { [clarity_score |-> c,
       confidence_score |-> f,
       details |-> [voiced_ratio |-> sig.voiced_ratio,
                    volume_stability |-> vs,
                    articulation |-> ar,
                    speech_rate_syl_per_sec |-> 10 * sig.syllable_rate]] :
        c \in PyRound(VocalClamp(ClarityRaw(sig, w2v), 0, 100 * Points(100)), 8400),
        f \in PyRound(VocalClamp(ConfidenceRaw(sig, w2v), 0, 100 * Points(100)), 8400),
        vs \in PyRound(VocalClamp(ConfVolume(sig), 0, Points(100)), 84),
        ar \in PyRound(VocalClamp(ClarityArticulation(sig), 0, Points(100)), 84) }

\* _score_tone, lines 336-348: the traits, in 840ths
ToneTraits(sig, w2v) ==
    LET expressiveness == VocalClamp(210 * sig.pitch_cv, 0, Points(100))
    IN  [expressiveness |-> expressiveness,
         energy |-> VocalClamp(420 * sig.rms_mean, 0, Points(100)),
         warmth |-> VocalClamp(Points(100) - 21 * (sig.spectral_centroid_mean - 1000),
                               0, Points(100)),
         monotone |-> VocalClamp(Points(100) - expressiveness, 0, Points(100)),
         deep_expressiveness |->
             VocalClamp(840 * w2v.w2v_temporal_variability, 0, Points(100))]

\* A tone blend that gives the "not monotone" reward to every voice
ToneRawAlwaysRewarded(sig, w2v) ==
    LET t == ToneTraits(sig, w2v)
    IN  30 * t.expressiveness + 20 * t.energy + 15 * t.warmth
        + 15 * Points(100) + 20 * t.deep_expressiveness

\* _score_tone, lines 351-357: tone in 84000ths
ToneRaw(sig, w2v) ==
    LET t == ToneTraits(sig, w2v)
    IN  30 * t.expressiveness + 20 * t.energy + 15 * t.warmth
        + 15 * (Points(100) - t.monotone) + 20 * t.deep_expressiveness

\* _score_tone: the results one call can return
ScoreTone(sig, w2v) ==
    LET t == ToneTraits(sig, w2v)
    IN  { [tone_score |-> ts,
           details |-> [pitch_expressiveness |-> pe,
                        energy_level |-> en,
                        warmth |-> wa,
                        monotone_level |-> mo,
                        pitch_mean_hz |-> 10 * sig.pitch_mean]] :
            ts \in PyRound(VocalClamp(ToneRaw(sig, w2v), 0, 100 * Points(100)), 8400),
            pe \in PyRound(t.expressiveness, 84),
            en \in PyRound(t.energy, 84),
            wa \in PyRound(t.warmth, 84),
            mo \in PyRound(t.monotone, 84) }

\* _score_hesitation_stress, lines 379-389: hesitation as the numerator of a
\* fraction over 2 * duration.  pauses_per_min * 8 is 48000 * pause_count /
\* duration with the duration in hundredths of a second.
HesitationNum(sig) ==
    LET d == sig.duration
        hesitation_pauses ==
            IF d > 0 THEN VocalClamp(48000 * sig.pause_count, 0, 100 * d) ELSE 0
        hesitation_ratio == VocalClamp(3 * sig.pause_ratio, 0, 100)
    IN  hesitation_pauses + hesitation_ratio * (IF d > 0 THEN d ELSE 1)

HesitationDen(sig) == 2 * (IF sig.duration > 0 THEN sig.duration ELSE 1)

\* _score_hesitation_stress, lines 393-410: stress in 84000ths
StressRaw(sig, w2v) ==
    LET stress_jitter == VocalClamp(420 * sig.jitter, 0, Points(100))
        stress_shimmer == VocalClamp(252 * sig.shimmer, 0, Points(100))
        stress_pitch == VocalClamp(280 * (sig.pitch_mean - 250), 0, Points(100))
        stress_deep == VocalClamp(1260 * w2v.w2v_mean_std, 0, Points(100))
    IN  30 * stress_jitter + 25 * stress_shimmer + 20 * stress_pitch
        + 25 * stress_deep

\* _score_hesitation_stress: the results one call can return
ScoreHesitationStress(sig, w2v) ==
    { [hesitation_score |-> hs,
       stress_score |-> ss,
       details |-> [pause_count |-> sig.pause_count]] :
        hs \in PyRound(10 * VocalClamp(HesitationNum(sig), 0, 100 * HesitationDen(sig)),
                       HesitationDen(sig)),
        ss \in PyRound(VocalClamp(StressRaw(sig, w2v), 0, 100 * Points(100)), 8400) }

\* _generate_feedback: one sentence per dimension, scores in tenths
GenerateFeedback(clarity, tone, hesitation) ==
    LET cs == clarity.clarity_score
        conf == clarity.confidence_score
        ts == tone.tone_score
        mono == tone.details.monotone_level
        hs == hesitation.hesitation_score
        ss == hesitation.stress_score
    IN  << IF cs >= 750 THEN "Your speech is clear and well-articulated."
           ELSE IF cs >= 500
           THEN "Your speech clarity is moderate. Try to enunciate words more distinctly."
           ELSE "Your speech clarity needs improvement. Focus on pronouncing each word clearly.",
           IF conf >= 750 THEN "You sound confident and composed."
           ELSE IF conf >= 500
           THEN "Your confidence level is fair. Try to maintain a steady volume and pace."
           ELSE "You sound uncertain. Practice speaking with a consistent volume and tempo.",
           IF mono >= 700
           THEN "Your tone is quite monotone. Vary your pitch to keep the listener engaged."
           ELSE IF ts >= 700
           THEN "Great tonal variety - your voice sounds engaging and expressive."
           ELSE "Your tone is acceptable but could be more dynamic and energetic.",
           IF hs >= 600
           THEN "Frequent hesitations detected. Practice to reduce pauses and filler moments."
           ELSE IF hs >= 300
           THEN "Some hesitation is present. Try to reduce unnecessary pauses."
           ELSE "Minimal hesitation - your speech flows well.",
           IF ss >= 600
           THEN "Signs of vocal stress detected. Deep breathing before speaking may help."
           ELSE IF ss >= 300
           THEN "Mild vocal stress indicators present. Stay relaxed and breathe regularly."
           ELSE "Your voice sounds relaxed and natural." >>

\* The remaining "details" entries (pitch_range_hz, total_pause_duration_s,
\* pauses_per_minute, jitter, shimmer, tempo_bpm) are roundings of features
\* that no score and no feedback sentence reads; they are left out.

\* The duration check of _extract_signal_features left out
TooShortNever(duration) == FALSE

\* _extract_signal_features, lines 94-96: duration in hundredths of a second
TooShort(duration) == duration < 50

TOO_SHORT_MESSAGE == "Audio is too short (< 0.5 s) for meaningful analysis."

ZERO_SIZE_MESSAGE ==
    "zero-size array to reduction operation maximum which has no identity"

\* Dummy deep features of all zeros
DUMMY_W2V_Zero ==
    [w2v_activation_energy |-> 0, w2v_temporal_variability |-> 0,
     w2v_mean_std |-> 0, w2v_feat_kurtosis |-> 0]

\* analyze_tone_quick, lines 626-631, in tenths
DUMMY_W2V ==
    [w2v_activation_energy |-> 150, w2v_temporal_variability |-> 50,
     w2v_mean_std |-> 30, w2v_feat_kurtosis |-> 30]

\* The call raised: the exception type, the message of the exception it
\* wraps or is, and whether the Wav2Vec2 model was run before
VoiceRaised(error, cause, w2v_ran) ==
    [raised |-> TRUE, error |-> error, cause |-> cause, w2v_ran |-> w2v_ran,
     result |-> <<>>]

VoiceReturned(result, w2v_ran) ==
    [raised |-> FALSE, error |-> "", cause |-> "", w2v_ran |-> w2v_ran,
     result |-> <<result>>]

\* _load_audio: librosa.load may fail on the file; np.max fails on an empty
\* waveform.  "" when the waveform is loaded.
LoadAudioError(clip) ==
    IF clip.load = "raises" THEN "librosa.load failed"
    ELSE IF clip.sig.duration = 0 THEN ZERO_SIZE_MESSAGE
    ELSE ""

\* analyze_tone, lines 583-589: scores in tenths, result in thousandths
OverallToneRaw(clarity, tone, hesitation) ==
    25 * clarity.clarity_score + 25 * clarity.confidence_score
    + 20 * tone.tone_score
    + 15 * (1000 - hesitation.hesitation_score)
    + 15 * (1000 - hesitation.stress_score)

\* analyze_tone_quick, lines 637-643
OverallToneQuickRaw(clarity, tone, hesitation) ==
    25 * clarity.clarity_score + 25 * clarity.confidence_score
    + 20 * tone.tone_score
    + 15 * (1000 - hesitation.hesitation_score)
    + 15 * (1000 - hesitation.stress_score)

\* analyze_tone: what one call can do.  elapsed is the processing time the
\* clock shows, in hundredths of a second.
AnalyzeTone(clip, elapsed) ==
    IF ~clip.exists
    THEN {VoiceRaised("FileNotFoundError", "Audio file not found", FALSE)}
    ELSE IF LoadAudioError(clip) # ""
    THEN {VoiceRaised("RuntimeError", LoadAudioError(clip), FALSE)}
    ELSE IF TooShort(clip.sig.duration)
    THEN {VoiceRaised("RuntimeError", TOO_SHORT_MESSAGE, FALSE)}
    ELSE IF clip.w2v.raises
    THEN {VoiceRaised("RuntimeError", "Wav2Vec2 forward pass failed", TRUE)}
    ELSE UNION {
           { VoiceReturned(
               [clarity_confidence |-> clarity,
                tone |-> tone,
                hesitation_stress |-> hesitation,
                overall_score |-> overall,
                feedback |-> GenerateFeedback(clarity, tone, hesitation),
                duration_s |-> clip.sig.duration,
                processing_time_s |-> elapsed], TRUE) :
               overall \in PyRound(VocalClamp(OverallToneRaw(clarity, tone, hesitation),
                                              0, 100000), 100) } :
             clarity \in ScoreClarityConfidence(clip.sig, clip.w2v.features),
             tone \in ScoreTone(clip.sig, clip.w2v.features),
             hesitation \in ScoreHesitationStress(clip.sig, clip.w2v.features) }

\* analyze_tone_quick: nothing is caught, so _load_audio's and
\* _extract_signal_features' exceptions reach the caller as they are
AnalyzeToneQuick(clip, elapsed) ==
    IF ~clip.exists
    THEN {VoiceRaised("FileNotFoundError", "Audio file not found", FALSE)}
    ELSE IF clip.load = "raises"
    THEN {VoiceRaised("Exception", LoadAudioError(clip), FALSE)}
    ELSE IF LoadAudioError(clip) # ""
    THEN {VoiceRaised("ValueError", LoadAudioError(clip), FALSE)}
    ELSE IF TooShort(clip.sig.duration)
    THEN {VoiceRaised("ValueError", TOO_SHORT_MESSAGE, FALSE)}
    ELSE UNION {
           { VoiceReturned(
               [clarity_confidence |-> clarity,
                tone |-> tone,
                hesitation_stress |-> hesitation,
                overall_score |-> overall,
                feedback |-> GenerateFeedback(clarity, tone, hesitation),
                duration_s |-> clip.sig.duration,
                processing_time_s |-> elapsed,
                mode |-> "quick (signal-only)"], FALSE) :
               overall \in PyRound(VocalClamp(OverallToneQuickRaw(clarity, tone, hesitation),
                                              0, 100000), 100) } :
             clarity \in ScoreClarityConfidence(clip.sig, DUMMY_W2V),
             tone \in ScoreTone(clip.sig, DUMMY_W2V),
             hesitation \in ScoreHesitationStress(clip.sig, DUMMY_W2V) }

(***************************************************************************)
(* NLPAnalyzer.evaluate_answer                                             *)
(*                                                                         *)
(* An answer is None or a string (a sequence of characters).  The cosine   *)
(* similarity is in 100000ths, so the score is in thousandths of a point   *)
(* and round(score, 2) is a real rounding; the score returned is in        *)
(* hundredths.                                                             *)
(***************************************************************************)

NO_ANSWER_MESSAGE == "No answer provided. Please enter your response."

NO_REFERENCE_MESSAGE == "No reference answer available for comparison."

\* "not text or not text.strip()" without the strip
IsBlankUnstripped(text) == text.t = "none" \/ text.s = <<>>

\* evaluate_answer, lines 53 and 56: "not text or not text.strip()"
IsBlank(text) == text.t = "none" \/ text.s = <<>> \/ Strip(text.s) = <<>>

\* _generate_feedback: score in thousandths of a point
NlpFeedback(score) ==
    IF score >= 90000 THEN "Excellent answer! Highly relevant and comprehensive."
    ELSE IF score >= 80000
    THEN "Very good answer! Strong relevance with minor room for improvement."
    ELSE IF score >= 70000 THEN "Good answer! Relevant but could include more details."
    ELSE IF score >= 60000
    THEN "Satisfactory answer. Relevant but lacks depth and detail."
    ELSE IF score >= 50000 THEN "Partially relevant. Misses key concepts or details."
    ELSE IF score >= 30000 THEN "Weak answer. Limited relevance to the reference answer."
    ELSE "Off-topic or irrelevant. Please review the question carefully."

\* What evaluate_answer returns: the (score, feedback) pair, and how many
\* times the embedding model was asked to encode
NlpResult(score, feedback, encode_calls) ==
    [score |-> score, feedback |-> feedback, encode_calls |-> encode_calls]

\* evaluate_answer: the results one call can return.  embed tells what the
\* model and cosine_similarity do: raise at the first or at the second
\* encode, or give a similarity.
EvaluateAnswer(user_answer, reference_answer, embed) ==
    IF IsBlank(user_answer) THEN {NlpResult(0, NO_ANSWER_MESSAGE, 0)}
    ELSE IF IsBlank(reference_answer) THEN {NlpResult(0, NO_REFERENCE_MESSAGE, 0)}
    ELSE IF embed.raises_at = 1
    THEN {NlpResult(0, "Error during analysis: " \o embed.msg, 1)}
    ELSE IF embed.raises_at = 2
    THEN {NlpResult(0, "Error during analysis: " \o embed.msg, 2)}
    ELSE LET score == embed.similarity
         IN  {NlpResult(r, NlpFeedback(score), 2) : r \in PyRound(score, 10)}

(***************************************************************************)
(* STTEngine.get_instance                                                  *)
(*                                                                         *)
(* An engine is a record of its number in order of construction, the       *)
(* model_size it was constructed with and the thread that constructed it.  *)
(***************************************************************************)

\* The test of line 97 left out: whoever holds the lock constructs
InstanceIsNoneAlways(instance) == TRUE

\* get_instance, line 97: "if cls._instance is None", under the lock
InstanceIsNone(instance) == instance = <<>>

\* cls(model_size=model_size), lines 101-116, when _load_model succeeds
NewEngine(number, model_size, thread) ==
    [number |-> number, model_size |-> model_size, by |-> thread]

(***************************************************************************)
(* InterviewConductor.generate_questions                                   *)
(*                                                                         *)
(* Texts are sequences of characters.  A returned question is the format   *)
(* string it was made from and the text put in its place holder.           *)
(***************************************************************************)

\* The characters matched by [\d\w]
WordChars ==
    {"0", "1", "2", "3", "4", "5", "6", "7", "8", "9", "_",
     "a", "b", "c", "d", "e", "f", "g", "h", "i", "j", "k", "l", "m",
     "n", "o", "p", "q", "r", "s", "t", "u", "v", "w", "x", "y", "z",
     "A", "B", "C", "D", "E", "F", "G", "H", "I", "J", "K", "L", "M",
     "N", "O", "P", "Q", "R", "S", "T", "U", "V", "W", "X", "Y", "Z"}

\* re.sub(r'^[\d\w][\.\)]\s*', '', question)
StripNumbering(q) ==
    IF Len(q) >= 2 /\ q[1] \in WordChars /\ q[2] \in {".", ")"}
    THEN LStrip(SubSeq(q, 3, Len(q)))
    ELSE q

\* re.sub(r'^[-*\u2022]\s*', '', question); "U+2022" stands for the bullet
\* character
StripBullet(q) ==
    IF Len(q) >= 1 /\ q[1] \in {"-", "*", "U+2022"} THEN LStrip(Tail(q)) ELSE q

\* The position of the first "*" of q at or after i, or Len(q) + 1
RECURSIVE NextStar(_, _)
NextStar(q, i) ==
    IF i > Len(q) THEN i ELSE IF q[i] = "*" THEN i ELSE NextStar(q, i + 1)

\* re.sub(r'\*\*([^*]+)\*\*', r'\1', question), scanning from position i
RECURSIVE SubBold(_, _)
SubBold(q, i) ==
    IF i > Len(q) THEN <<>>
    ELSE LET j == NextStar(q, i + 2)
         IN  IF /\ i + 1 <= Len(q) /\ q[i] = "*" /\ q[i + 1] = "*"
                /\ j >= i + 3 /\ j + 1 <= Len(q) /\ q[j + 1] = "*"
             THEN SubSeq(q, i + 2, j - 1) \o SubBold(q, j + 2)
             ELSE <<q[i]>> \o SubBold(q, i + 1)

\* re.sub(r'\*([^*]+)\*', r'\1', question), scanning from position i
RECURSIVE SubItalic(_, _)
SubItalic(q, i) ==
    IF i > Len(q) THEN <<>>
    ELSE LET j == NextStar(q, i + 1)
         IN  IF q[i] = "*" /\ j >= i + 2 /\ j <= Len(q)
             THEN SubSeq(q, i + 1, j - 1) \o SubItalic(q, j + 1)
             ELSE <<q[i]>> \o SubItalic(q, i + 1)

\* generate_questions, lines 153-166: one stripped, non-empty line cleaned
CleanQuestion(question) ==
    Strip(SubItalic(SubBold(StripBullet(StripNumbering(question)), 1), 1))

\* generate_questions, lines 147-170: the loop over the lines of the text
RECURSIVE CleanedQuestions(_)
CleanedQuestions(raw_questions) ==
    IF raw_questions = <<>> THEN <<>>
    ELSE LET question == Strip(Head(raw_questions))
             rest     == CleanedQuestions(Tail(raw_questions))
         IN  IF question = <<>> THEN rest
             ELSE IF CleanQuestion(question) = <<>> THEN rest
             ELSE <<[template |-> "{}", arg |-> CleanQuestion(question)]>> \o rest

\* tech_stack.split(',')[0]
RECURSIVE FirstField(_)
FirstField(text) ==
    IF text = <<>> THEN <<>>
    ELSE IF Head(text) = "," THEN <<>>
    ELSE <<Head(text)>> \o FirstField(Tail(text))

\* generate_questions, lines 181-187: the fallback questions
FallbackQuestions(job_role, tech_stack) ==
    << [template |-> "Describe your experience with {}.",
        arg |-> Strip(FirstField(tech_stack))],
       [template |-> "What are the main responsibilities of a {}?",
        arg |-> job_role],
       [template |-> "Explain a challenging technical problem you solved recently.",
        arg |-> <<>>],
       [template |-> "How do you stay updated with the latest technologies?",
        arg |-> <<>>],
       [template |-> "Describe your approach to debugging complex issues.",
        arg |-> <<>>] >>

\* generate_questions: api tells whether generate_content (or response.text)
\* raises, and otherwise the lines of the stripped response text
GenerateQuestions(job_role, tech_stack, api) ==
    IF api.raises THEN FallbackQuestions(job_role, tech_stack)
    ELSE LET cleaned_questions == CleanedQuestions(api.lines)
         IN  IF Len(cleaned_questions) > 5 THEN SubSeq(cleaned_questions, 1, 5)
             ELSE cleaned_questions

(***************************************************************************)
(* Bounds and inputs                                                       *)
(***************************************************************************)

\* analyze_frame calls per behaviour
MaxFrames == 3

\* largest history_size a model is constructed with
MaxHistory == 2

\* clock ticks per behaviour
MaxTime == 1

\* longest buffer given to _get_most_common_emotion directly
MaxBuffer == 4

\* Labels in those buffers
BufferLabels == {"fear", "happy", "neutral"}

\* Every buffer content of at most MaxBuffer labels
Buffers == UNION { [1..n -> BufferLabels] : n \in 0..MaxBuffer }

\* Scores given to fuse_scores, in hundredths: below 0, above 100, the tier
\* boundaries and their neighbours
FusionScores ==
    {Num(-5000), Num(0), Num(4999), Num(5000), Num(6000), Num(7000),
     Num(8500), Num(8999), Num(9000), Num(10000), Num(25000),
     Str(S_85), Str(S_70Padded), Str(S_Minus5)}

\* Malformed or absent score entries
BadScores == {MissingVal, NoneVal, ListVal, Str(S_abc), Str(S_Blank)}

FusionEmotions ==
    {Str(S_Confident), Str(S_Neutral), Str(S_Nervous), Str(S_NERVOUS),
     Str(S_Monotone), Str(S_Disgust), Str(S_Happy), Str(S_SadPadded),
     Str(S_Calm), Str(S_Blank), Str(<<>>), MissingVal, NoneVal}

\* The arguments tried: every score with two emotions, every emotion with
\* two scores, None, and an object that is not a dict
FusionData ==
    {NoneData, NonDictData}
    \cup {Dict(sc, em) : sc \in FusionScores \cup BadScores,
                         em \in {Str(S_Confident), MissingVal}}
    \cup {Dict(sc, em) : sc \in {Num(8500), Num(6000)}, em \in FusionEmotions}

\* Values an emotion distribution may hold: negative, zero, ordinary, the
\* whole mass, and far too large
DistValues == {-50, 0, 35, 100, 1000}

EmptyDist == [l \in {} |-> 0]

\* Distributions a frame's classifier output carries
FrameDists ==
    { [happy |-> 80, neutral |-> 15, fear |-> 5, sad |-> 0, angry |-> 0,
       disgust |-> 0, surprise |-> 0],
      [fear |-> 60, sad |-> 25, neutral |-> 15] }

\* Distributions given to _compute_interview_metrics directly: the empty one,
\* every distribution over at most two labels, and the frames' ones
MetricDists ==
    UNION { [sub -> DistValues] :
              sub \in {x \in SUBSET LabelSet : Cardinality(x) <= 2} }
    \cup FrameDists

\* dominant_emotion of the classifier: the label with the largest value
Dominant(d) == CHOOSE l \in DOMAIN d : \A o \in DOMAIN d : d[l] >= d[o]

\* eye_contact_score arguments, in tenths
EyeValues == {-1000, 0, 500, 1000, 5000}

\* What the Haar cascades do on a frame
HaarOutcomes ==
    { [raises |-> TRUE, faces |-> 0, eyes |-> 0],
      [raises |-> FALSE, faces |-> 0, eyes |-> 0],
      [raises |-> FALSE, faces |-> 1, eyes |-> 0],
      [raises |-> FALSE, faces |-> 2, eyes |-> 2] }

Regions ==
    { [x |-> 0, y |-> 0, w |-> 0, h |-> 0],
      [x |-> 10, y |-> 20, w |-> 50, h |-> 0],
      [x |-> 10, y |-> 20, w |-> 0, h |-> 60],
      [x |-> 10, y |-> 20, w |-> 50, h |-> 60] }

\* What DeepFace.analyze does on a frame: it raises, or returns face data
DeepFaceOutcomes ==
    { [raises |-> TRUE, msg |-> m, emotion |-> EmptyDist,
       dominant_emotion |-> "neutral", region |-> [x |-> 0, y |-> 0, w |-> 0, h |-> 0]] :
         m \in {"Face could not be detected", ""} }
    \cup
    { [raises |-> FALSE, msg |-> "", emotion |-> d, dominant_emotion |-> Dominant(d),
       region |-> r] : d \in FrameDists, r \in Regions }

\* The frames analysed: every pairing of the two detectors' outcomes in which
\* the classifier finds no face or raises, the "happy" frame under every
\* eye-contact outcome, and the "fear" frame with a face but no eyes
Frames ==
    { f \in [haar : HaarOutcomes, deep : DeepFaceOutcomes] :
        \/ f.deep.raises
        \/ ~(f.deep.region.w > 0 /\ f.deep.region.h > 0)
        \/ f.deep.dominant_emotion = "happy"
        \/ (~f.haar.raises /\ f.haar.faces = 1) }

\* Pitch features a clip can show: ordinary, unvoiced, extreme, in between,
\* out of range, and two flat voices: one with an expressiveness of exactly
\* 30 and one whose expressiveness, 29.75, lies midway between two decimals
PitchFeatures ==
    { [voiced_ratio |-> 800, pitch_mean |-> 180, pitch_cv |-> 150, jitter |-> 20],
      [voiced_ratio |-> 700, pitch_mean |-> 150, pitch_cv |-> 120, jitter |-> 10],
      [voiced_ratio |-> 700, pitch_mean |-> 150, pitch_cv |-> 119, jitter |-> 10],
      [voiced_ratio |-> 0, pitch_mean |-> 0, pitch_cv |-> 0, jitter |-> 0],
      [voiced_ratio |-> 1000, pitch_mean |-> 600, pitch_cv |-> 900, jitter |-> 400],
      [voiced_ratio |-> 655, pitch_mean |-> 307, pitch_cv |-> 333, jitter |-> 77],
      [voiced_ratio |-> 4000, pitch_mean |-> -100, pitch_cv |-> -200, jitter |-> -50] }

\* Loudness features: ordinary, silent, very unsteady
LoudnessFeatures ==
    { [rms_mean |-> 120, rms_cv |-> 40, shimmer |-> 100],
      [rms_mean |-> 0, rms_cv |-> 0, shimmer |-> 0],
      [rms_mean |-> 500, rms_cv |-> 200, shimmer |-> 900] }

\* Spectral features: ordinary, lowest, far too bright, in between
SpectralFeatures ==
    { [spectral_centroid_mean |-> 2250, zcr_mean |-> 50],
      [spectral_centroid_mean |-> 0, zcr_mean |-> 0],
      [spectral_centroid_mean |-> 8000, zcr_mean |-> 300],
      [spectral_centroid_mean |-> 1234, zcr_mean |-> 77] }

\* Timing features of clips long enough to analyse: ten seconds with two
\* pauses, exactly half a second, the 30 s cap full of pauses, seven seconds
TimingFeatures ==
    { [duration |-> 1000, pause_count |-> 2, pause_ratio |-> 10, syllable_rate |-> 45],
      [duration |-> 50, pause_count |-> 0, pause_ratio |-> 0, syllable_rate |-> 0],
      [duration |-> 3000, pause_count |-> 40, pause_ratio |-> 60, syllable_rate |-> 120],
      [duration |-> 700, pause_count |-> 1, pause_ratio |-> 7, syllable_rate |-> 38] }

\* Durations below half a second, in hundredths: empty, 0.10 s, 0.49 s
ShortDurations == {0, 10, 49}

\* The feature dict _extract_signal_features builds from four groups
SigOf(pitch, loud, spec, timing) ==
    [duration |-> timing.duration,
     pitch_mean |-> pitch.pitch_mean,
     pitch_cv |-> pitch.pitch_cv,
     voiced_ratio |-> pitch.voiced_ratio,
     rms_mean |-> loud.rms_mean,
     rms_cv |-> loud.rms_cv,
     spectral_centroid_mean |-> spec.spectral_centroid_mean,
     zcr_mean |-> spec.zcr_mean,
     pause_count |-> timing.pause_count,
     pause_ratio |-> timing.pause_ratio,
     syllable_rate |-> timing.syllable_rate,
     jitter |-> pitch.jitter,
     shimmer |-> loud.shimmer]

\* What the waveform of a clip of at least half a second holds
LongSigs ==
    { SigOf(p, l, sp, t) : p \in PitchFeatures, l \in LoudnessFeatures,
                           sp \in SpectralFeatures, t \in TimingFeatures }

\* What the waveform of a shorter clip holds
ShortSigs ==
    { SigOf(p, l, sp, [duration |-> d, pause_count |-> 0, pause_ratio |-> 0,
                       syllable_rate |-> 40]) :
        p \in {x \in PitchFeatures : x.voiced_ratio = 800},
        l \in {x \in LoudnessFeatures : x.rms_mean = 120},
        sp \in {x \in SpectralFeatures : x.zcr_mean = 50},
        d \in ShortDurations }

\* What _extract_wav2vec2_features would do on the clip: raise, or return
\* its four statistics (the dummy's values, zeros, large ones, others)
DeepOutcomes ==
    { [raises |-> TRUE, features |-> DUMMY_W2V_Zero] }
    \cup
    { [raises |-> FALSE, features |-> f] :
        f \in { [w2v_activation_energy |-> 150, w2v_temporal_variability |-> 50,
                 w2v_mean_std |-> 30, w2v_feat_kurtosis |-> 30],
                [w2v_activation_energy |-> 0, w2v_temporal_variability |-> 0,
                 w2v_mean_std |-> 0, w2v_feat_kurtosis |-> 0],
                [w2v_activation_energy |-> 1000, w2v_temporal_variability |-> 400,
                 w2v_mean_std |-> 200, w2v_feat_kurtosis |-> 900],
                [w2v_activation_energy |-> 213, w2v_temporal_variability |-> 37,
                 w2v_mean_std |-> 41, w2v_feat_kurtosis |-> 25] } }

\* The audio files given to the analyser: every analysable clip, the short
\* ones, a file librosa cannot load and a path that does not exist
Clips ==
    { [exists |-> TRUE, load |-> "ok", sig |-> sig, w2v |-> w] :
        sig \in LongSigs \cup ShortSigs, w \in DeepOutcomes }
    \cup
    { [exists |-> e, load |-> "raises", sig |-> sig, w2v |-> w] :
        e \in BOOLEAN,
        sig \in {x \in ShortSigs : x.duration = 49},
        w \in {x \in DeepOutcomes : x.raises} }

\* Answer and reference texts: None, empty, blanks only, tabs and newlines
\* only, and texts with content (one of them padded with blanks)
AnswerTexts ==
    {NoneVal, Str(<<>>), Str(S_Blank), Str(<<"\t", "\n", " ">>),
     Str(S_abc), Str(S_SadPadded), Str(S_Confident)}

\* Cosine similarities in 100000ths: negative, zero, around each feedback
\* threshold, one, and slightly above one
Similarities ==
    {-12345, 0, 29999, 30000, 49995, 50000, 59999, 60004, 70000, 79996,
     80000, 89999, 90000, 100000, 100001}

\* What the embedding model and cosine_similarity do on two texts: raise at
\* the first or the second encode, or give a similarity
EmbedOutcomes ==
    { [raises_at |-> k, msg |-> "CUDA out of memory", similarity |-> 0] : k \in {1, 2} }
    \cup { [raises_at |-> 0, msg |-> "", similarity |-> x] : x \in Similarities }

\* Processing times the clock can show, in hundredths of a second
ElapsedTimes == {3, 120}

\* Most lines in a response of the generation API
MaxLines == 6

\* Lines of a response: a plain question, a numbered question in bold, a
\* line of blanks, and a bullet with nothing behind it
ResponseLines ==
    { <<"W", "h", "y", "?">>,
      <<"1", ".", " ", "*", "*", "H", "o", "w", "?", "*", "*">>,
      <<" ", " ">>,
      <<"-", " ">> }

\* response.text.strip().split('\n')
ResponseTexts == UNION { [1..n -> ResponseLines] : n \in 0..MaxLines }

\* What the generation API does: raise, or answer with some lines
ApiOutcomes ==
    { [raises |-> TRUE, lines |-> <<>>] }
    \cup { [raises |-> FALSE, lines |-> text] : text \in ResponseTexts }

\* tech_stack arguments: two technologies, and one
TechStacks == { <<"G", "o", " ", ",", "C">>, <<"C">> }

\* job_role argument
JobRoles == { <<"D", "e", "v">> }

\* metric arguments of _qualitative: the five metrics and an unknown one
MetricNames ==
    {"confidence", "nervousness", "engagement", "eye_contact", "overall",
     "posture"}

\* score arguments of _qualitative, in tenths: all of [0,100], and values
\* below and above
QualitativeScores == 0..1000 \cup {-400, -1, 1001, 2500}

\* Whisper model sizes passed to get_instance
ModelSizes == {"medium", "tiny"}

\* Threads calling STTEngine.get_instance
MaxThreads == 2

(***************************************************************************)
(* State machine                                                           *)
(***************************************************************************)

NoFusion ==
    [called |-> FALSE, voice_data |-> NoneData, face_data |-> NoneData,
     out |-> RaisedResult]

NoMetricsCall ==
    [called |-> FALSE, all_emotions |-> EmptyDist, eye_contact_score |-> 0,
     is_face_present |-> FALSE, out |-> ZeroMetrics]

NoMostCommon == [called |-> FALSE, out |-> ""]

NoVoice ==
    [called |-> FALSE, quick |-> FALSE,
     clip |-> [exists |-> FALSE, load |-> "raises",
               sig |-> CHOOSE x \in ShortSigs : x.duration = 49,
               w2v |-> [raises |-> TRUE, features |-> DUMMY_W2V_Zero]],
     out |-> VoiceRaised("", "", FALSE)]

NoNLP ==
    [called |-> FALSE, user_answer |-> NoneVal, reference_answer |-> NoneVal,
     embed |-> [raises_at |-> 0, msg |-> "", similarity |-> 0],
     out |-> NlpResult(0, "", 0)]

\* No analyze_frame call is in progress: the frame thread is outside the call
NoUpdate == [pc |-> "idle", result |-> NoResult, metrics |-> ZeroMetrics,
             eye_contact_score |-> 0, emotion |-> "neutral",
             is_face_present |-> FALSE]

\* A caller of STTEngine.get_instance: where it is, its argument, the engine
\* it has constructed but not yet stored, and what it got back.  Optional
\* values are <<>> (None) or <<value>>.
STTThread(pc, model_size) ==
    [pc |-> pc, model_size |-> model_size, made |-> <<>>, ret |-> <<>>]

\* The class as imported (lines 74-75), with nobody calling get_instance
NoSTT ==
    [instance |-> <<>>, lock |-> 0, constructed |-> 0, loads |-> 0,
     threads |-> [t \in 1..MaxThreads |-> STTThread("off", "medium")]]

NoQuestions ==
    [called |-> FALSE, job_role |-> <<>>, tech_stack |-> <<>>,
     api |-> [raises |-> TRUE, lines |-> <<>>], out |-> <<>>]

NoQualitative == [called |-> FALSE, metric |-> "", score |-> 0, out |-> ""]

\* No analyze_frame call in progress, no get_instance caller, no
\* generate_questions or direct _qualitative call
InitLate ==
    /\ update = NoUpdate
    /\ stt = NoSTT
    /\ questions = NoQuestions
    /\ qualitative = NoQualitative

\* No call of the stabiliser, the vocal analyser or the answer evaluator
InitCalls ==
    /\ most_common = NoMostCommon
    /\ voice = NoVoice
    /\ nlp = NoNLP
    /\ InitLate

\* FacialExpressionModel.__init__, with the clock at 0
InitFaceModel ==
    /\ emotion_history = <<>>
    /\ frame_count = 0
    /\ session = InitSession(0)
    /\ frame_result = NoResult
    /\ report = NoReport
    /\ now = 0

\* A model constructed with some history_size, and no scorer call pending
InitFace ==
    /\ fusion = NoFusion
    /\ metrics_call = NoMetricsCall
    /\ history_size \in 1..MaxHistory
    /\ InitFaceModel
    /\ ties_up \in BOOLEAN
    /\ InitCalls

\* The arguments of one fuse_scores call
InitFusion ==
    /\ fusion \in {[NoFusion EXCEPT !.voice_data = vd, !.face_data = fd] :
                     vd \in FusionData, fd \in FusionData}
    /\ metrics_call = NoMetricsCall
    /\ history_size = 1
    /\ InitFaceModel
    /\ ties_up = FALSE
    /\ InitCalls

\* The arguments of one _compute_interview_metrics call
InitMetrics ==
    /\ fusion = NoFusion
    /\ metrics_call \in {[NoMetricsCall EXCEPT !.all_emotions = d,
                                               !.eye_contact_score = eye,
                                               !.is_face_present = present] :
                           d \in MetricDists, eye \in EyeValues,
                           present \in BOOLEAN}
    /\ history_size = 1
    /\ InitFaceModel
    /\ ties_up = FALSE
    /\ InitCalls

\* A model whose buffer holds some labels, before one direct call of
\* _get_most_common_emotion
InitMostCommon ==
    /\ fusion = NoFusion
    /\ metrics_call = NoMetricsCall
    /\ history_size = MaxBuffer
    /\ emotion_history \in Buffers
    /\ frame_count = 0
    /\ session = InitSession(0)
    /\ frame_result = NoResult
    /\ report = NoReport
    /\ now = 0
    /\ ties_up = FALSE
    /\ InitCalls

\* An analyser, a clip, and the variant about to be called
InitVoice ==
    /\ fusion = NoFusion
    /\ metrics_call = NoMetricsCall
    /\ history_size = 1
    /\ InitFaceModel
    /\ ties_up = FALSE
    /\ most_common = NoMostCommon
    /\ voice \in {[NoVoice EXCEPT !.quick = q, !.clip = c] :
                    q \in BOOLEAN, c \in Clips}
    /\ nlp = NoNLP
    /\ InitLate

\* An analyser and the two texts of the call to come
InitNLP ==
    /\ fusion = NoFusion
    /\ metrics_call = NoMetricsCall
    /\ history_size = 1
    /\ InitFaceModel
    /\ ties_up = FALSE
    /\ most_common = NoMostCommon
    /\ voice = NoVoice
    /\ nlp \in {[NoNLP EXCEPT !.user_answer = u, !.reference_answer = r,
                               !.embed = e] :
                  u \in AnswerTexts, r \in AnswerTexts, e \in EmbedOutcomes}
    /\ InitLate

\* The class as imported, and every thread about to call get_instance with
\* some model_size
InitSTT ==
    /\ fusion = NoFusion
    /\ metrics_call = NoMetricsCall
    /\ history_size = 1
    /\ InitFaceModel
    /\ ties_up = FALSE
    /\ most_common = NoMostCommon
    /\ voice = NoVoice
    /\ nlp = NoNLP
    /\ update = NoUpdate
    /\ questions = NoQuestions
    /\ qualitative = NoQualitative
    /\ \E sizes \in [1..MaxThreads -> ModelSizes] :
          stt = [NoSTT EXCEPT
                   !.threads = [t \in 1..MaxThreads |-> STTThread("l95", sizes[t])]]

\* A conductor, and the arguments and the API's behaviour of the call to come
InitQuestions ==
    /\ fusion = NoFusion
    /\ metrics_call = NoMetricsCall
    /\ history_size = 1
    /\ InitFaceModel
    /\ ties_up = FALSE
    /\ most_common = NoMostCommon
    /\ voice = NoVoice
    /\ nlp = NoNLP
    /\ update = NoUpdate
    /\ stt = NoSTT
    /\ qualitative = NoQualitative
    /\ questions \in {[NoQuestions EXCEPT !.job_role = j, !.tech_stack = ts,
                                          !.api = a] :
                        j \in JobRoles, ts \in TechStacks, a \in ApiOutcomes}

\* The arguments of one direct _qualitative call
InitQualitative ==
    /\ fusion = NoFusion
    /\ metrics_call = NoMetricsCall
    /\ history_size = 1
    /\ InitFaceModel
    /\ ties_up = FALSE
    /\ most_common = NoMostCommon
    /\ voice = NoVoice
    /\ nlp = NoNLP
    /\ update = NoUpdate
    /\ stt = NoSTT
    /\ questions = NoQuestions
    /\ qualitative \in {[NoQualitative EXCEPT !.metric = name, !.score = x] :
                          name \in MetricNames, x \in QualitativeScores}

\* engine.fuse_scores(voice_data, face_data)
FuseScoresCall ==
    /\ ~fusion.called
    /\ \E r \in FuseScores(fusion.voice_data, fusion.face_data) :
          fusion' = [fusion EXCEPT !.called = TRUE, !.out = r]
    /\ UNCHANGED <<callVars, metrics_call, faceVars>>

\* FacialExpressionModel._compute_interview_metrics(...), called directly
ComputeInterviewMetricsCall ==
    /\ ~metrics_call.called
    /\ \E m \in ComputeInterviewMetrics(metrics_call.all_emotions,
                                        metrics_call.eye_contact_score,
                                        metrics_call.is_face_present) :
          metrics_call' = [metrics_call EXCEPT !.called = TRUE, !.out = m]
    /\ UNCHANGED <<callVars, fusion, faceVars>>

\* model._get_most_common_emotion(), called directly
GetMostCommonEmotionCall ==
    /\ ~most_common.called
    /\ most_common' = [called |-> TRUE,
                       out |-> GetMostCommonEmotion(emotion_history)]
    /\ UNCHANGED <<fusion, metrics_call, faceVars, ties_up, voice, nlp, lateVars>>

\* analyzer.analyze_tone(audio_path)
AnalyzeToneCall ==
    /\ ~voice.called
    /\ ~voice.quick
    /\ \E elapsed \in ElapsedTimes :
         \E o \in AnalyzeTone(voice.clip, elapsed) :
            voice' = [voice EXCEPT !.called = TRUE, !.out = o]
    /\ UNCHANGED <<fusion, metrics_call, faceVars, ties_up, most_common, nlp,
                   lateVars>>

\* analyzer.analyze_tone_quick(audio_path)
AnalyzeToneQuickCall ==
    /\ ~voice.called
    /\ voice.quick
    /\ \E elapsed \in ElapsedTimes :
         \E o \in AnalyzeToneQuick(voice.clip, elapsed) :
            voice' = [voice EXCEPT !.called = TRUE, !.out = o]
    /\ UNCHANGED <<fusion, metrics_call, faceVars, ties_up, most_common, nlp,
                   lateVars>>

\* analyzer.evaluate_answer(user_answer, reference_answer)
EvaluateAnswerCall ==
    /\ ~nlp.called
    /\ \E o \in EvaluateAnswer(nlp.user_answer, nlp.reference_answer, nlp.embed) :
          nlp' = [nlp EXCEPT !.called = TRUE, !.out = o]
    /\ UNCHANGED <<fusion, metrics_call, faceVars, ties_up, most_common, voice,
                   lateVars>>

\* model.analyze_frame(frame) on one given frame
AnalyzeFrameOn(frame) ==
    /\ frame_count < MaxFrames
    /\ LET loc     == FrameLocals(frame.haar, frame.deep, emotion_history,
                                  history_size)
           emotion == Stabilised(loc)
       IN  \E interview_metrics \in
                  ComputeInterviewMetrics(loc.all_emotions,
                                          loc.eye_contact_score,
                                          loc.is_face_present) :
              /\ frame_count' = frame_count + 1
              /\ emotion_history' = loc.history
              /\ session' = RecordFrame(session, loc, emotion, interview_metrics)
              /\ frame_result' = FrameResult(loc, emotion, interview_metrics)
    /\ report' = NoReport
    /\ UNCHANGED <<callVars, fusion, metrics_call, history_size, now>>

\* model.analyze_frame(frame)
AnalyzeFrame == \E frame \in Frames : AnalyzeFrameOn(frame)

\* model.get_session_feedback()
GetSessionFeedback ==
    /\ report' = SessionFeedback(session, now, ties_up)
    /\ frame_result' = NoResult
    /\ UNCHANGED <<callVars, fusion, metrics_call, history_size, emotion_history,
                   frame_count, session, now>>

\* model.reset_history()
ResetHistory ==
    /\ emotion_history' = DequeClear(emotion_history)
    /\ session' = InitSession(now)
    /\ frame_result' = NoResult
    /\ report' = NoReport
    /\ UNCHANGED <<callVars, fusion, metrics_call, history_size, frame_count, now>>

\* time passes between calls
Tick ==
    /\ now < MaxTime
    /\ now' = now + 1
    /\ UNCHANGED <<callVars, fusion, metrics_call, history_size, emotion_history,
                   frame_count, session, frame_result, report>>

(***************************************************************************)
(* analyze_frame on a camera thread, statement by statement, while another *)
(* thread asks for the session report.  The model holds no lock, so the    *)
(* other thread can run between any two statements of lines 289-297.       *)
(***************************************************************************)

\* analyze_frame, lines 219-287: everything before the session tracking
BeginFrame ==
    /\ update.pc = "idle"
    /\ frame_count < MaxFrames
    /\ \E frame \in Frames :
         LET loc     == FrameLocals(frame.haar, frame.deep, emotion_history,
                                    history_size)
             emotion == Stabilised(loc)
         IN  \E interview_metrics \in
                    ComputeInterviewMetrics(loc.all_emotions,
                                            loc.eye_contact_score,
                                            loc.is_face_present) :
                /\ frame_count' = frame_count + 1
                /\ emotion_history' = loc.history
                /\ update' = [pc |-> "l289",
                              result |-> FrameResult(loc, emotion, interview_metrics),
                              metrics |-> interview_metrics,
                              eye_contact_score |-> loc.eye_contact_score,
                              emotion |-> emotion,
                              is_face_present |-> loc.is_face_present]
    /\ frame_result' = NoResult
    /\ report' = NoReport
    /\ UNCHANGED <<fusion, metrics_call, history_size, session, now, ties_up,
                   most_common, voice, nlp, stt, questions, qualitative>>

\* One statement of the session tracking: the session after it, and the
\* line the thread is at next
UpdateStep(line, next_session, next_line) ==
    /\ update.pc = line
    /\ session' = next_session
    /\ update' = [update EXCEPT !.pc = next_line]
    /\ report' = NoReport
    /\ UNCHANGED <<fusion, metrics_call, history_size, emotion_history,
                   frame_count, frame_result, now, ties_up, most_common, voice,
                   nlp, stt, questions, qualitative>>

\* line 289: self._session["total_analyzed"] += 1, and the test of line 290
CountFrame ==
    UpdateStep("l289", [session EXCEPT !.total_analyzed = @ + 1],
               IF update.is_face_present THEN "l291" ELSE "l299")

\* line 291: self._session["face_present_count"] += 1
CountFace ==
    UpdateStep("l291", [session EXCEPT !.face_present_count = @ + 1], "l292")

\* line 292
AppendConfidence ==
    UpdateStep("l292",
               [session EXCEPT !.confidence = Append(@, update.metrics.confidence)],
               "l293")

\* line 293
AppendNervousness ==
    UpdateStep("l293",
               [session EXCEPT !.nervousness = Append(@, update.metrics.nervousness)],
               "l294")

\* line 294
AppendEngagement ==
    UpdateStep("l294",
               [session EXCEPT !.engagement = Append(@, update.metrics.engagement)],
               "l295")

\* line 295
AppendEyeContact ==
    UpdateStep("l295",
               [session EXCEPT !.eye_contact = Append(@, update.eye_contact_score)],
               "l296")

\* line 296
AppendEmotion ==
    UpdateStep("l296",
               [session EXCEPT !.emotions = Append(@, update.emotion)],
               "l299")

\* lines 299-311: the call returns its result
ReturnFrame ==
    /\ update.pc = "l299"
    /\ frame_result' = update.result
    /\ update' = NoUpdate
    /\ report' = NoReport
    /\ UNCHANGED <<fusion, metrics_call, history_size, emotion_history,
                   frame_count, session, now, ties_up, most_common, voice, nlp,
                   stt, questions, qualitative>>

(***************************************************************************)
(* Threads calling STTEngine.get_instance, statement by statement          *)
(***************************************************************************)

\* Thread t moves to pc with the class attributes as given
STTStep(t, pc, instance, lock, constructed, loads, made, ret) ==
    /\ stt' = [instance |-> instance, lock |-> lock,
               constructed |-> constructed, loads |-> loads,
               threads |-> [stt.threads EXCEPT ![t].pc = pc, ![t].made = made,
                                               ![t].ret = ret]]
    /\ UNCHANGED <<fusion, metrics_call, faceVars, ties_up, most_common, voice,
                   nlp, update, questions, qualitative>>

\* line 95: "if cls._instance is None", without the lock
CheckInstance(t) ==
    /\ stt.threads[t].pc = "l95"
    /\ STTStep(t, IF stt.instance = <<>> THEN "l96" ELSE "l99",
               stt.instance, stt.lock, stt.constructed, stt.loads, <<>>, <<>>)

\* line 96: "with cls._instance_lock", entered when the lock is free
AcquireLock(t) ==
    /\ stt.threads[t].pc = "l96"
    /\ stt.lock = 0
    /\ STTStep(t, "l97", stt.instance, t, stt.constructed, stt.loads, <<>>, <<>>)

\* line 97: the second test, under the lock
DoubleCheck(t) ==
    /\ stt.threads[t].pc = "l97"
    /\ STTStep(t, IF InstanceIsNone(stt.instance) THEN "l98" ELSE "exit",
               stt.instance, stt.lock, stt.constructed, stt.loads, <<>>, <<>>)

\* line 98, right-hand side: cls(model_size=model_size).  __init__ calls
\* _load_model, which either loads the model or raises (lines 216-219).
Construct(t) ==
    /\ stt.threads[t].pc = "l98"
    /\ \/ STTStep(t, "l98_store", stt.instance, stt.lock, stt.constructed + 1,
                  stt.loads + 1,
                  <<NewEngine(stt.constructed + 1, stt.threads[t].model_size, t)>>,
                  <<>>)
       \/ STTStep(t, "exit_raising", stt.instance, stt.lock, stt.constructed,
                  stt.loads + 1, <<>>, <<>>)

\* line 98, the assignment to cls._instance
StoreInstance(t) ==
    /\ stt.threads[t].pc = "l98_store"
    /\ STTStep(t, "exit", stt.threads[t].made, stt.lock, stt.constructed,
               stt.loads, stt.threads[t].made, <<>>)

\* leaving the with block: the lock is released
ReleaseLock(t) ==
    /\ stt.threads[t].pc = "exit"
    /\ STTStep(t, "l99", stt.instance, 0, stt.constructed, stt.loads,
               stt.threads[t].made, <<>>)

\* leaving the with block by the exception of a failed load: the lock is
\* released and the exception reaches the caller
ReleaseLockRaising(t) ==
    /\ stt.threads[t].pc = "exit_raising"
    /\ STTStep(t, "raised", stt.instance, 0, stt.constructed, stt.loads,
               <<>>, <<>>)

\* line 99: return cls._instance
ReturnInstance(t) ==
    /\ stt.threads[t].pc = "l99"
    /\ STTStep(t, "done", stt.instance, stt.lock, stt.constructed, stt.loads,
               stt.threads[t].made, stt.instance)

\* conductor.generate_questions(job_role, tech_stack)
GenerateQuestionsCall ==
    /\ ~questions.called
    /\ questions' = [questions EXCEPT
                        !.called = TRUE,
                        !.out = GenerateQuestions(questions.job_role,
                                                  questions.tech_stack,
                                                  questions.api)]
    /\ UNCHANGED <<fusion, metrics_call, faceVars, ties_up, most_common, voice,
                   nlp, update, stt, qualitative>>

\* FacialExpressionModel._qualitative(metric, score), called directly
QualitativeCall ==
    /\ ~qualitative.called
    /\ qualitative.metric # ""
    /\ qualitative' = [qualitative EXCEPT
                          !.called = TRUE,
                          !.out = Qualitative(qualitative.metric,
                                              qualitative.score)]
    /\ UNCHANGED <<fusion, metrics_call, faceVars, ties_up, most_common, voice,
                   nlp, update, stt, questions>>

NextFusion == FuseScoresCall

NextMetrics == ComputeInterviewMetricsCall

NextMostCommon == GetMostCommonEmotionCall

NextVoice == AnalyzeToneCall \/ AnalyzeToneQuickCall

NextNLP == EvaluateAnswerCall

NextFace == AnalyzeFrame \/ GetSessionFeedback \/ ResetHistory \/ Tick

\* The camera thread inside or outside analyze_frame, and the thread that
\* asks for the report
NextFaceThreads ==
    \/ BeginFrame
    \/ CountFrame
    \/ CountFace
    \/ AppendConfidence
    \/ AppendNervousness
    \/ AppendEngagement
    \/ AppendEyeContact
    \/ AppendEmotion
    \/ ReturnFrame
    \/ GetSessionFeedback

\* Any thread takes its next statement of get_instance
NextSTT ==
    \E t \in 1..MaxThreads :
        \/ CheckInstance(t)
        \/ AcquireLock(t)
        \/ DoubleCheck(t)
        \/ Construct(t)
        \/ StoreInstance(t)
        \/ ReleaseLock(t)
        \/ ReleaseLockRaising(t)
        \/ ReturnInstance(t)

NextQuestions == GenerateQuestionsCall

NextQualitative == QualitativeCall

\* The fusion engine alone
SpecFusion == InitFusion /\ [][NextFusion]_vars

\* The metric scorer alone
SpecMetrics == InitMetrics /\ [][NextMetrics]_vars

\* The emotion stabiliser's most-common query alone
SpecMostCommon == InitMostCommon /\ [][NextMostCommon]_vars

\* One vocal analysis of one clip
SpecVoice == InitVoice /\ [][NextVoice]_vars

\* One answer evaluation
SpecNLP == InitNLP /\ [][NextNLP]_vars

\* One FacialExpressionModel and its callers
SpecFace == InitFace /\ [][NextFace]_vars

\* One FacialExpressionModel shared by a camera thread and a reporting thread
SpecFaceThreads == InitFace /\ [][NextFaceThreads]_vars

\* Concurrent first calls of STTEngine.get_instance
SpecSTT == InitSTT /\ [][NextSTT]_vars

\* One generate_questions call
SpecQuestions == InitQuestions /\ [][NextQuestions]_vars

\* A behaviour is either a session of one model or one direct call of the
\* static metric scorer
InitScorer == InitFace \/ InitMetrics

NextScorer ==
    \/ (metrics_call = NoMetricsCall /\ NextFace)
    \/ NextMetrics

SpecScorer == InitScorer /\ [][NextScorer]_vars

\* A behaviour is either a session of one model or one direct call of the
\* feedback sentences' lookup
InitFeedback == InitFace \/ InitQualitative

NextFeedback ==
    \/ (qualitative = NoQualitative /\ NextFace)
    \/ NextQualitative

SpecFeedback == InitFeedback /\ [][NextFeedback]_vars

(***************************************************************************)
(* Claims                                                                  *)
(***************************************************************************)

\* C1: after any sequence of analyze_frame, get_session_feedback and
\* reset_history calls, the session's confidence, nervousness, engagement,
\* eye_contact and emotions lists all have the same length, that length is
\* face_present_count, and face_present_count <= total_analyzed.
C1_SessionListsAligned ==
    /\ Len(session.confidence) = session.face_present_count
    /\ Len(session.nervousness) = session.face_present_count
    /\ Len(session.engagement) = session.face_present_count
    /\ Len(session.eye_contact) = session.face_present_count
    /\ Len(session.emotions) = session.face_present_count
    /\ session.face_present_count <= session.total_analyzed

\* C1 witness: three frames analysed, one of them without a face, and the
\* report just taken
C1_Witness ==
    /\ session.total_analyzed = 3
    /\ session.face_present_count = 2
    /\ Len(session.emotions) = 2
    /\ "overall_score" \in DOMAIN report

IsNumeric(data) == data.kind = "dict" /\ data.score.t = "num"

\* clamp(x, 0, 100) of a value in thousandths
ClampedThousandths(x) == IF x < 0 THEN 0 ELSE IF x > 100000 THEN 100000 ELSE x

\* C2: for every pair of numeric voice and face scores, negative and above
\* 100 included, fuse_scores returns final_score = clamp(0.6*voice +
\* 0.4*face, 0, 100) rounded to two decimals, so it lies in [0,100];
\* (85, 60) gives 75.0 and (100, 100) gives 100.0.
C2_FinalScoreClamped ==
    (fusion.called /\ IsNumeric(fusion.voice_data) /\ IsNumeric(fusion.face_data))
    => LET v == fusion.voice_data.score.v
           f == fusion.face_data.score.v
           x == ClampedThousandths(6 * v + 4 * f)
       IN  /\ ~fusion.out.raised
           /\ fusion.out.final_score \in 0..10000
           /\ Abs(10 * fusion.out.final_score - x) <= 5
           /\ (v = 8500 /\ f = 6000) => fusion.out.final_score = 7500
           /\ (v = 10000 /\ f = 10000) => fusion.out.final_score = 10000

\* C2 witness: a weighted sum above 100 (0.6*250 + 0.4*85 = 184) returned
\* as 100.0
C2_Witness ==
    /\ fusion.called
    /\ fusion.voice_data.score = Num(25000)
    /\ fusion.face_data.score = Num(8500)
    /\ fusion.out.final_score = 10000

SixLabels ==
    {"Outstanding", "Excellent", "Good", "Satisfactory", "Needs Improvement",
     "Poor"}

\* C3: for every pair of numeric input scores exactly one of the six feedback
\* rules has a [min,max] range holding the final_score returned, and the
\* label returned is that rule's, never the fallback 'Unknown'.
C3_ExactlyOneRule ==
    (fusion.called /\ IsNumeric(fusion.voice_data) /\ IsNumeric(fusion.face_data))
    => /\ Cardinality({i \in 1..Len(FEEDBACK_RULES) :
                         /\ FEEDBACK_RULES[i].min <= fusion.out.final_score
                         /\ fusion.out.final_score <= FEEDBACK_RULES[i].max}) = 1
       /\ Len(FEEDBACK_RULES) = 6
       /\ fusion.out.label \in SixLabels
       /\ \E i \in 1..Len(FEEDBACK_RULES) :
             /\ FEEDBACK_RULES[i].label = fusion.out.label
             /\ FEEDBACK_RULES[i].min <= fusion.out.final_score
             /\ fusion.out.final_score <= FEEDBACK_RULES[i].max

\* C3 witness: 0.6*89.99 + 0.4*90 = 89.994, between the literal bounds 89.99
\* and 90, is returned as 89.99 and labelled Excellent
C3_Witness ==
    /\ fusion.called
    /\ fusion.voice_data.score = Num(8999)
    /\ fusion.face_data.score = Num(9000)
    /\ fusion.out.final_score = 8999
    /\ fusion.out.label = "Excellent"

\* A missing modality or a malformed score: None, no 'score' key, or a
\* 'score' that is None, a container or a non-numeric string
IsMalformed(data) ==
    \/ data.kind = "None"
    \/ /\ data.kind = "dict"
       /\ \/ data.score.t \in {"missing", "none", "list"}
          \/ data.score \in {Str(S_abc), Str(S_Blank)}

EmotionAbsent(data) ==
    \/ data.kind = "None"
    \/ /\ data.kind = "dict"
       /\ \/ data.emotion.t = "missing"
          \/ data.emotion \in {Str(S_Blank), Str(<<>>)}

ScoreOrZero(data) == IF IsMalformed(data) THEN 0 ELSE data.score.v

\* C4: fuse_scores never raises for a missing modality or a malformed score:
\* such a side counts as score 0 in the weighted sum and, when its emotion is
\* missing or blank, as emotion 'N/A'; fuse_scores(None, None) returns
\* final_score 0.0 with the label 'Poor'.
C4_MissingOrMalformedIsZero ==
    (/\ fusion.called
     /\ IsMalformed(fusion.voice_data) \/ IsNumeric(fusion.voice_data)
     /\ IsMalformed(fusion.face_data) \/ IsNumeric(fusion.face_data)
     /\ IsMalformed(fusion.voice_data) \/ IsMalformed(fusion.face_data))
    => LET x == ClampedThousandths(6 * ScoreOrZero(fusion.voice_data)
                                   + 4 * ScoreOrZero(fusion.face_data))
       IN  /\ ~fusion.out.raised
           /\ Abs(10 * fusion.out.final_score - x) <= 5
           /\ EmotionAbsent(fusion.voice_data) => fusion.out.voice_emotion = S_NA
           /\ EmotionAbsent(fusion.face_data) => fusion.out.face_emotion = S_NA
           /\ (fusion.voice_data = NoneData /\ fusion.face_data = NoneData)
                => (fusion.out.final_score = 0 /\ fusion.out.label = "Poor")

\* C4 witness: a voice score of 'abc' beside a face score of 60 gives
\* 0.4*60 = 24.0
C4_Witness ==
    /\ fusion.called
    /\ fusion.voice_data.kind = "dict"
    /\ fusion.voice_data.score = Str(S_abc)
    /\ fusion.face_data.score = Num(6000)
    /\ ~fusion.out.raised
    /\ fusion.out.final_score = 2400

InSetIgnoringCase(label, set) == \E m \in set : Lower(label) = Lower(m)

\* C5: the emotion_summary uses 'but' exactly when one and only one of (face
\* label in the negative-face set, voice label in the negative-voice set)
\* holds, compared case-insensitively, and 'and' otherwise; voice Confident
\* with face Nervous gives 'but', with face Neutral 'and'.
C5_ConjunctionIsXor ==
    (fusion.called /\ ~fusion.out.raised)
    => LET ve  == fusion.out.voice_emotion
           fe  == fusion.out.face_emotion
           fn  == InSetIgnoringCase(fe, NEGATIVE_FACE)
           vn  == InSetIgnoringCase(ve, NEGATIVE_VOICE)
           sum == fusion.out.emotion_summary
       IN  /\ Len(sum) = 7
           /\ sum[2] = ve /\ sum[6] = fe
           /\ sum[4] \in {"and", "but"}
           /\ sum[4] = "but" <=> ((fn /\ ~vn) \/ (vn /\ ~fn))
           /\ (ve = S_Confident /\ fe = S_Nervous) => sum[4] = "but"
           /\ (ve = S_Confident /\ fe = S_NERVOUS) => sum[4] = "but"
           /\ (ve = S_Confident /\ fe = S_Neutral) => sum[4] = "and"

\* C5 witness: the same label on both sides, negative for a face and not for
\* a voice, still gives 'but'
C5_Witness ==
    /\ fusion.called
    /\ ~fusion.out.raised
    /\ fusion.out.voice_emotion = S_Disgust
    /\ fusion.out.face_emotion = S_Disgust
    /\ fusion.out.emotion_summary[4] = "but"

\* C6: _compute_interview_metrics returns confidence, nervousness and
\* engagement all exactly 0.0 whenever is_face_present is false or the
\* distribution is empty, whatever the distribution holds and whatever the
\* eye_contact_score; and every analyze_frame result with is_face_present
\* false carries interview_metrics {0,0,0}.
C6_NoFaceIsAllZero ==
    /\ (/\ metrics_call.called
        /\ ~metrics_call.is_face_present \/ DOMAIN metrics_call.all_emotions = {})
       => (/\ metrics_call.out.confidence = 0
           /\ metrics_call.out.nervousness = 0
           /\ metrics_call.out.engagement = 0)
    /\ ("is_face_present" \in DOMAIN frame_result /\ ~frame_result.is_face_present)
       => (/\ frame_result.interview_metrics.confidence = 0
           /\ frame_result.interview_metrics.nervousness = 0
           /\ frame_result.interview_metrics.engagement = 0)

\* C6 witness: no face, a distribution holding 1000 for happy and 100 for
\* fear, an eye_contact_score of 500.0, and the zero result
C6_Witness ==
    /\ metrics_call.called
    /\ ~metrics_call.is_face_present
    /\ metrics_call.all_emotions = [happy |-> 1000, fear |-> 100]
    /\ metrics_call.eye_contact_score = 5000
    /\ metrics_call.out = [confidence |-> 0, nervousness |-> 0, engagement |-> 0]

\* C7: for every emotion distribution (adversarially large or negative values
\* included), every eye_contact_score and either face-presence value, each of
\* confidence, nervousness and engagement returned by
\* _compute_interview_metrics lies in [0,100].
C7_MetricsInRange ==
    metrics_call.called
    => /\ metrics_call.out.confidence \in 0..1000
       /\ metrics_call.out.nervousness \in 0..1000
       /\ metrics_call.out.engagement \in 0..1000

\* C7 witness: a face, happy = 1000 and sad = -50, eye_contact_score -100.0:
\* confidence is cut to 100.0, nervousness and engagement to 0.0
C7_Witness ==
    /\ metrics_call.called
    /\ metrics_call.is_face_present
    /\ metrics_call.all_emotions = [happy |-> 1000, sad |-> -50]
    /\ metrics_call.eye_contact_score = -1000
    /\ metrics_call.out.confidence = 1000
    /\ metrics_call.out.nervousness = 0
    /\ metrics_call.out.engagement \in 0..1000

\* clamp(x, 0, 100) of a value in hundredths
ClampedHundredths(x) == IF x < 0 THEN 0 ELSE IF x > 10000 THEN 10000 ELSE x

\* d[label], or 0 for a label the distribution lacks
Prob(d, label) == IF label \in DOMAIN d THEN d[label] ELSE 0

\* C8: with a face present and a non-empty distribution,
\* confidence = clamp(1.00*happy + 0.65*neutral + 0.40*surprise + 0.25*angry
\*                    + 0.15*disgust + 0.10*sad + 0.05*fear),
\* nervousness = clamp(1.00*fear + 0.70*sad + 0.50*surprise + 0.40*disgust
\*                     + 0.30*angry + 0.10*neutral),
\* engagement = clamp(0.50*eye_contact_score + 0.30*(100 - neutral) + 0.20*100),
\* each clamped to [0,100] and rounded to one decimal, a label missing from
\* the distribution counting as 0.
C8_MetricFormulas ==
    (/\ metrics_call.called
     /\ metrics_call.is_face_present
     /\ DOMAIN metrics_call.all_emotions # {})
    => LET d   == metrics_call.all_emotions
           eye == metrics_call.eye_contact_score
           c == ClampedHundredths(
                  100 * Prob(d, "happy") + 65 * Prob(d, "neutral")
                  + 40 * Prob(d, "surprise") + 25 * Prob(d, "angry")
                  + 15 * Prob(d, "disgust") + 10 * Prob(d, "sad")
                  + 5 * Prob(d, "fear"))
           n == ClampedHundredths(
                  100 * Prob(d, "fear") + 70 * Prob(d, "sad")
                  + 50 * Prob(d, "surprise") + 40 * Prob(d, "disgust")
                  + 30 * Prob(d, "angry") + 10 * Prob(d, "neutral"))
           e == ClampedHundredths(
                  5 * eye + 30 * (100 - Prob(d, "neutral")) + 20 * 100)
       IN  /\ Abs(10 * metrics_call.out.confidence - c) <= 5
           /\ Abs(10 * metrics_call.out.nervousness - n) <= 5
           /\ Abs(10 * metrics_call.out.engagement - e) <= 5

\* C8 witness: happy 80, neutral 15, fear 5 and eye contact 50.0 give
\* confidence 90.0, nervousness 6.5 and engagement 70.5
C8_Witness ==
    /\ metrics_call.called
    /\ metrics_call.is_face_present
    /\ Prob(metrics_call.all_emotions, "happy") = 80
    /\ Prob(metrics_call.all_emotions, "neutral") = 15
    /\ Prob(metrics_call.all_emotions, "fear") = 5
    /\ metrics_call.eye_contact_score = 500
    /\ metrics_call.out.confidence = 900
    /\ metrics_call.out.nervousness = 65
    /\ metrics_call.out.engagement = 705

\* C9: in every analyze_frame result the eye_contact_score is one of 0, 50,
\* 100; it is 0 whenever is_face_present is false and 50 or 100 whenever
\* is_face_present is true, so no 0 is ever appended to the session's
\* eye_contact list.
C9_EyeContactFollowsFaceFlag ==
    /\ "eye_contact_score" \in DOMAIN frame_result
       => /\ frame_result.eye_contact_score \in {0, 500, 1000}
          /\ ~frame_result.is_face_present => frame_result.eye_contact_score = 0
          /\ frame_result.is_face_present
               => frame_result.eye_contact_score \in {500, 1000}
    /\ \A i \in 1..Len(session.eye_contact) : session.eye_contact[i] # 0

\* C10: the emotion history is a bounded FIFO of capacity history_size: its
\* length never exceeds history_size, an append to a buffer that is not full
\* keeps every label in arrival order, and an append to a full buffer evicts
\* exactly the oldest label and nothing else.
C10_BoundedFifo ==
    [][ /\ Len(emotion_history') <= history_size
        /\ ("is_face_present" \in DOMAIN frame_result' /\ frame_count' = frame_count + 1
            /\ frame_result'.is_face_present)
           => /\ Len(emotion_history) < history_size
                 => emotion_history' = emotion_history \o <<frame_result'.raw_emotion>>
              /\ Len(emotion_history) = history_size
                 => emotion_history' =
                      SubSeq(emotion_history, 2, history_size)
                      \o <<frame_result'.raw_emotion>> ]_vars

\* C10 witness: three face frames into a buffer of capacity 2: "happy" was
\* evicted, "fear", "happy" remain in arrival order
C10_Witness ==
    /\ history_size = 2
    /\ session.face_present_count = 3
    /\ "raw_emotion" \in DOMAIN frame_result
    /\ session.emotions[1] = "happy"
    /\ emotion_history = <<"fear", "happy">>

\* The letters of the facial labels, for comparing them as Python compares
\* strings
Spelling(label) ==
    CASE label = "angry"    -> <<"a", "n", "g", "r", "y">>
      [] label = "disgust"  -> <<"d", "i", "s", "g", "u", "s", "t">>
      [] label = "fear"     -> <<"f", "e", "a", "r">>
      [] label = "happy"    -> <<"h", "a", "p", "p", "y">>
      [] label = "neutral"  -> <<"n", "e", "u", "t", "r", "a", "l">>
      [] label = "sad"      -> <<"s", "a", "d">>
      [] label = "surprise" -> <<"s", "u", "r", "p", "r", "i", "s", "e">>

Alphabet ==
    <<"a", "b", "c", "d", "e", "f", "g", "h", "i", "j", "k", "l", "m", "n",
      "o", "p", "q", "r", "s", "t", "u", "v", "w", "x", "y", "z">>

LetterCode(c) == CHOOSE i \in 1..Len(Alphabet) : Alphabet[i] = c

\* a < b for two strings, letter by letter
RECURSIVE LexLess(_, _)
LexLess(a, b) ==
    IF b = <<>> THEN FALSE
    ELSE IF a = <<>> THEN TRUE
    ELSE IF Head(a) # Head(b) THEN LetterCode(Head(a)) < LetterCode(Head(b))
    ELSE LexLess(Tail(a), Tail(b))

\* C11: _get_most_common_emotion returns a label whose count in the buffer
\* is maximal; among the labels that tie for the maximum it returns the
\* lexicographically smallest; it returns None ("" here) on an empty buffer;
\* and the buffer [happy, happy, fear] gives happy.
C11_MostCommonSmallestOnTies ==
    most_common.called
    => LET buf == emotion_history
           out == most_common.out
       IN  /\ buf = <<>> => out = ""
           /\ buf # <<>>
              => /\ \E i \in 1..Len(buf) : buf[i] = out
                 /\ \A l \in LabelSet : Count(buf, l) <= Count(buf, out)
                 /\ \A l \in LabelSet :
                      (l # out /\ Count(buf, l) = Count(buf, out))
                      => LexLess(Spelling(out), Spelling(l))
           /\ buf = <<"happy", "happy", "fear">> => out = "happy"

\* C11 witness: "neutral" entered first and ties with "fear" at two each;
\* the call returned "fear"
C11_Witness ==
    /\ most_common.called
    /\ emotion_history = <<"neutral", "fear", "neutral", "fear">>
    /\ most_common.out = "fear"

\* The score entries of a full session report
ScoreFields ==
    {"avg_confidence", "avg_nervousness", "avg_engagement", "avg_eye_contact",
     "overall_score", "face_presence_rate"}

\* C12: get_session_feedback on a session with total_analyzed = 0 (a fresh
\* model, or after reset_history with no frame since) returns a result that
\* holds an "error" entry and nothing else, none of the score entries; on a
\* session with total_analyzed > 0 it returns a full report without "error".
C12_EmptySessionIsDistinct ==
    report # NoReport
    => /\ session.total_analyzed = 0
          => /\ DOMAIN report = {"error"}
             /\ report.error # ""
       /\ session.total_analyzed > 0
          => /\ "error" \notin DOMAIN report
             /\ ScoreFields \subseteq DOMAIN report
             /\ report.total_frames_analyzed = session.total_analyzed

\* C12 witness: frames were analysed, reset_history emptied the session, and
\* the report taken afterwards is the empty-session result
C12_Witness ==
    /\ frame_count = 2
    /\ session.total_analyzed = 0
    /\ report # NoReport
    /\ DOMAIN report = {"error"}

\* The result of a frame on which analysis failed
FailedFrame(result) ==
    /\ ~result.success
    /\ ~result.is_face_present
    /\ result.eye_contact_score = 0
    /\ result.interview_metrics = [confidence |-> 0, nervousness |-> 0,
                                   engagement |-> 0]
    /\ result.error # <<>>
    /\ result.error[1] # ""

\* C13: when the face classifier or the eye-contact detector raises during
\* analyze_frame, the call returns a result with success false,
\* is_face_present false, eye_contact_score 0, interview_metrics {0,0,0} and
\* a non-empty error message, and the session counts the frame in
\* total_analyzed and changes nothing else.
C13_DetectorFailureYieldsFailedFrame ==
    [][ \A f \in Frames :
          ((f.haar.raises \/ f.deep.raises) /\ AnalyzeFrameOn(f))
          => /\ FailedFrame(frame_result')
             /\ session' = [session EXCEPT !.total_analyzed = @ + 1] ]_vars

\* sum of the counts of an emotion distribution
RECURSIVE DistTotal(_, _)
DistTotal(dist, labels) ==
    IF labels = {} THEN 0
    ELSE LET l == CHOOSE x \in labels : TRUE
         IN  dist[l] + DistTotal(dist, labels \ {l})

\* reported is mean(lst) rounded to one decimal (values in tenths), or 0 for
\* an empty list
IsRoundedMean(reported, lst) ==
    IF lst = <<>> THEN reported = 0
    ELSE 2 * Abs(reported * Len(lst) - SeqSum(lst)) <= Len(lst)

\* C14: for a session with total_analyzed > 0, get_session_feedback reports
\* each average as the mean of its running list (0 for an empty list) to one
\* decimal, face_presence_rate = face_present_count / total_analyzed * 100,
\* an emotion_distribution whose counts sum to the length of the emotions
\* list, and overall_score = 0.30*avg_confidence + 0.25*(100 -
\* avg_nervousness) + 0.25*avg_engagement + 0.20*avg_eye_contact to one
\* decimal, which lies in [0,100].
C14_ReportFormulas ==
    (report # NoReport /\ session.total_analyzed > 0)
    => /\ IsRoundedMean(report.avg_confidence, session.confidence)
       /\ IsRoundedMean(report.avg_nervousness, session.nervousness)
       /\ IsRoundedMean(report.avg_engagement, session.engagement)
       /\ IsRoundedMean(report.avg_eye_contact, session.eye_contact)
       /\ 2 * Abs(report.face_presence_rate * session.total_analyzed
                  - 1000 * session.face_present_count)
            <= session.total_analyzed
       /\ DistTotal(report.emotion_distribution,
                    DOMAIN report.emotion_distribution) = Len(session.emotions)
       /\ Abs(100 * report.overall_score
              - (30 * report.avg_confidence
                 + 25 * (1000 - report.avg_nervousness)
                 + 25 * report.avg_engagement
                 + 20 * report.avg_eye_contact)) <= 50
       /\ report.overall_score \in 0..1000

\* C14 witness: three frames, two with a face ("happy" with eye contact 50.0
\* and "fear"), reported with a face presence rate of 66.7 and both emotions
\* in the distribution
C14_Witness ==
    /\ report # NoReport
    /\ session.total_analyzed = 3
    /\ session.face_present_count = 2
    /\ session.eye_contact = <<500, 500>>
    /\ report.face_presence_rate = 667
    /\ report.avg_confidence \in {526, 527}
    /\ DOMAIN report.emotion_distribution = {"fear", "happy"}

\* C15: two get_session_feedback calls with no analyze_frame or
\* reset_history between them return the same report in every entry,
\* duration_seconds included, and a call leaves the session accumulator and
\* the emotion history as they were.
C15_FeedbackIsIdempotent ==
    [][ (report # NoReport /\ report' # NoReport)
        => /\ report' = report
           /\ session' = session
           /\ emotion_history' = emotion_history ]_vars

IsEmptyText(text) ==
    /\ text.t = "str"
    /\ \A i \in 1..Len(text.s) : text.s[i] \in {" ", "\t", "\n"}

\* C17: each InsufficientInput condition is caught before computation and
\* gives an explicit zero-score result with an explanatory message, and none
\* raises to the caller: a clip shorter than 0.5 s given to analyze_tone or
\* analyze_tone_quick, an empty answer given to evaluate_answer, an empty
\* emotion distribution given to _compute_interview_metrics.
C17_InsufficientInputYieldsZeroScore ==
    /\ (/\ voice.called
        /\ voice.clip.exists
        /\ voice.clip.load = "ok"
        /\ voice.clip.sig.duration \in 1..49)
       => /\ ~voice.out.raised
          /\ voice.out.result # <<>>
          /\ voice.out.result[1].overall_score = 0
          /\ voice.out.result[1].feedback # <<>>
    /\ (nlp.called /\ IsEmptyText(nlp.user_answer))
       => /\ nlp.out.score = 0
          /\ nlp.out.feedback # ""
          /\ nlp.out.encode_calls = 0
    /\ (metrics_call.called /\ DOMAIN metrics_call.all_emotions = {})
       => /\ metrics_call.out.confidence = 0
          /\ metrics_call.out.nervousness = 0
          /\ metrics_call.out.engagement = 0
          /\ "message" \in DOMAIN metrics_call.out

\* clamp(x, 0, 100) of a value in 840ths of a point
Clamp840(x) == IF x < 0 THEN 0 ELSE IF x > 84000 THEN 84000 ELSE x

\* clamp(x, 0, 100) of a weighted blend, in 84000ths of a point
ClampBlend(x) == IF x < 0 THEN 0 ELSE IF x > 8400000 THEN 8400000 ELSE x

\* score (in tenths) is blend (in 84000ths) clamped and rounded to a decimal
IsRoundedBlend(score, blend) == Abs(8400 * score - ClampBlend(blend)) <= 4200

\* the spec's clarity blend
SpecClarity(sig, deep) ==
    30 * (84 * sig.voiced_ratio)
    + 25 * Clamp840(24 * (sig.spectral_centroid_mean - 500))
    + 20 * Clamp840(84000 - 840 * sig.zcr_mean)
    + 25 * Clamp840(252 * deep.w2v_activation_energy)

\* the spec's confidence blend
SpecConfidence(sig, deep) ==
    25 * Clamp840(84000 - 1260 * sig.rms_cv)
    + 20 * Clamp840(84000 - 168 * sig.pitch_cv)
    + 20 * Clamp840(84000 - 2520 * Abs(sig.syllable_rate - 45))
    + 15 * Clamp840(84000 - 2520 * sig.pause_ratio)
    + 20 * Clamp840(84000 - 1680 * deep.w2v_mean_std)

\* the spec's tone blend; monotone = 100 - the pitch-expressiveness term
SpecTone(sig, deep) ==
    LET expressiveness == Clamp840(210 * sig.pitch_cv)
        monotone == 84000 - expressiveness
    IN  30 * expressiveness
        + 20 * Clamp840(420 * sig.rms_mean)
        + 15 * Clamp840(84000 - 21 * (sig.spectral_centroid_mean - 1000))
        + 15 * (84000 - monotone)
        + 20 * Clamp840(840 * deep.w2v_temporal_variability)

\* the spec's stress blend
SpecStress(sig, deep) ==
    30 * Clamp840(420 * sig.jitter)
    + 25 * Clamp840(252 * sig.shimmer)
    + 20 * Clamp840(280 * (sig.pitch_mean - 250))
    + 25 * Clamp840(1260 * deep.w2v_mean_std)

\* score (in tenths) is the spec's hesitation blend, 0.50 * clamp((pause_count
\* / duration * 60) * 8) + 0.50 * clamp(pause_ratio * 300), rounded to a
\* decimal.  Compared after multiplying by 2 * duration (in hundredths of a
\* second), which keeps the division exact.
IsSpecHesitation(score, sig) ==
    LET d == sig.duration
        pauses == IF 48000 * sig.pause_count > 100 * d THEN 100 * d
                  ELSE IF sig.pause_count < 0 THEN 0
                  ELSE 48000 * sig.pause_count
        ratio == IF 3 * sig.pause_ratio > 100 THEN 100
                 ELSE IF sig.pause_ratio < 0 THEN 0
                 ELSE 3 * sig.pause_ratio
    IN  Abs(2 * d * score - 10 * (pauses + ratio * d)) <= d

\* C18: for every acoustic feature set with duration >= 0.5 s and every deep
\* feature summary, the clarity, confidence, tone, hesitation and stress
\* scores analyze_tone returns are the spec's weighted blends of clamped
\* normalised features, clamped to [0,100] and rounded to one decimal;
\* overall_score is 0.25*clarity + 0.25*confidence + 0.20*tone
\* + 0.15*(100 - hesitation) + 0.15*(100 - stress) clamped to [0,100] (and
\* rounded to one decimal); and all six values lie in [0,100].
C18_VocalScoreFormulas ==
    (voice.called /\ ~voice.quick /\ ~voice.out.raised)
    => LET sig  == voice.clip.sig
           deep == voice.clip.w2v.features
           r    == voice.out.result[1]
           cl   == r.clarity_confidence.clarity_score
           cf   == r.clarity_confidence.confidence_score
           to   == r.tone.tone_score
           he   == r.hesitation_stress.hesitation_score
           st   == r.hesitation_stress.stress_score
           blend == 25 * cl + 25 * cf + 20 * to
                    + 15 * (1000 - he) + 15 * (1000 - st)
       IN  /\ sig.duration >= 50
           /\ IsRoundedBlend(cl, SpecClarity(sig, deep))
           /\ IsRoundedBlend(cf, SpecConfidence(sig, deep))
           /\ IsRoundedBlend(to, SpecTone(sig, deep))
           /\ IsSpecHesitation(he, sig)
           /\ IsRoundedBlend(st, SpecStress(sig, deep))
           /\ Abs(100 * r.overall_score
                  - (IF blend < 0 THEN 0
                     ELSE IF blend > 100000 THEN 100000 ELSE blend)) <= 50
           /\ {cl, cf, to, he, st, r.overall_score} \subseteq 0..1000

\* C18 witness: a ten-second clip with ordinary pitch and loudness, a
\* centroid of 2250 Hz and two pauses, analysed with the deep summary
\* (21.3, 3.7, 4.1, 2.5): clarity 62.5
C18_Witness ==
    /\ voice.called
    /\ ~voice.quick
    /\ ~voice.out.raised
    /\ voice.clip.sig.duration = 1000
    /\ voice.clip.sig.voiced_ratio = 800
    /\ voice.clip.sig.rms_mean = 120
    /\ voice.clip.sig.spectral_centroid_mean = 2250
    /\ voice.clip.w2v.features.w2v_activation_energy = 213
    /\ voice.out.result[1].clarity_confidence.clarity_score = 625

\* The fixed constants of the quick variant, in tenths: activation energy
\* 15, temporal variability 5, mean feature dispersion 3, kurtosis 3
QuickConstants ==
    [w2v_activation_energy |-> 150, w2v_temporal_variability |-> 50,
     w2v_mean_std |-> 30, w2v_feat_kurtosis |-> 30]

\* C19: analyze_tone_quick returns exactly the scores and the feedback that
\* the full variant's scoring functions give on the clip's acoustic features
\* and the fixed deep summary (15, 5, 3, 3); its result carries a "mode"
\* entry and a result of analyze_tone never does.
C19_QuickIsFullOnConstants ==
    (voice.called /\ ~voice.out.raised)
    => LET r == voice.out.result[1]
       IN  /\ voice.quick
              => /\ "mode" \in DOMAIN r
                 /\ r.clarity_confidence
                      \in ScoreClarityConfidence(voice.clip.sig, QuickConstants)
                 /\ r.tone \in ScoreTone(voice.clip.sig, QuickConstants)
                 /\ r.hesitation_stress
                      \in ScoreHesitationStress(voice.clip.sig, QuickConstants)
                 /\ r.overall_score
                      \in PyRound(VocalClamp(OverallToneRaw(r.clarity_confidence,
                                                            r.tone,
                                                            r.hesitation_stress),
                                             0, 100000), 100)
                 /\ r.feedback = GenerateFeedback(r.clarity_confidence, r.tone,
                                                  r.hesitation_stress)
           /\ ~voice.quick => "mode" \notin DOMAIN r

\* C19 witness: the quick analysis of a clip with a bright spectrum whose
\* deep extraction would have raised; the result carries the mode entry
C19_Witness ==
    /\ voice.called
    /\ voice.quick
    /\ ~voice.out.raised
    /\ voice.clip.w2v.raises
    /\ voice.clip.sig.spectral_centroid_mean = 8000
    /\ voice.out.result[1].mode = "quick (signal-only)"
    /\ ~voice.out.w2v_ran

\* C20: evaluate_answer with an empty or whitespace-only user answer returns
\* (0.0, "No answer provided. Please enter your response."); with a user
\* answer that has content and an empty or whitespace-only reference it
\* returns (0.0, "No reference answer available for comparison."); in both
\* cases the embedding model is never asked to encode, and the user-answer
\* check comes first when both are empty.
C20_BlankAnswersShortCircuit ==
    nlp.called
    => /\ IsEmptyText(nlp.user_answer)
          => /\ nlp.out.score = 0
             /\ nlp.out.feedback = "No answer provided. Please enter your response."
             /\ nlp.out.encode_calls = 0
       /\ (/\ nlp.user_answer.t = "str"
           /\ ~IsEmptyText(nlp.user_answer)
           /\ IsEmptyText(nlp.reference_answer))
          => /\ nlp.out.score = 0
             /\ nlp.out.feedback = "No reference answer available for comparison."
             /\ nlp.out.encode_calls = 0

\* C20 witness: a user answer of two blanks and an empty reference, with an
\* embedding model that would have raised: the user-answer message, no
\* encode call
C20_Witness ==
    /\ nlp.called
    /\ nlp.user_answer = Str(<<" ", " ">>)
    /\ nlp.reference_answer = Str(<<>>)
    /\ nlp.embed.raises_at = 1
    /\ nlp.out.feedback = "No answer provided. Please enter your response."
    /\ nlp.out.score = 0
    /\ nlp.out.encode_calls = 0

(***************************************************************************)
(* C21                                                                     *)
(***************************************************************************)

\* The sentence of the seven-tier table for a percentage in hundredths of a
\* point: the first tier among >= 90, >= 80, >= 70, >= 60, >= 50, >= 30,
\* else
TierSentence(pct) ==
    IF pct >= 9000 THEN "Excellent answer! Highly relevant and comprehensive."
    ELSE IF pct >= 8000
    THEN "Very good answer! Strong relevance with minor room for improvement."
    ELSE IF pct >= 7000 THEN "Good answer! Relevant but could include more details."
    ELSE IF pct >= 6000
    THEN "Satisfactory answer. Relevant but lacks depth and detail."
    ELSE IF pct >= 5000 THEN "Partially relevant. Misses key concepts or details."
    ELSE IF pct >= 3000 THEN "Weak answer. Limited relevance to the reference answer."
    ELSE "Off-topic or irrelevant. Please review the question carefully."

\* C21: whenever the external scorer produced a similarity (both texts have
\* content and nothing raised), the feedback returned by evaluate_answer is
\* the sentence of the first tier that the returned percentage satisfies.
C21_FeedbackMatchesReturnedScore ==
    (/\ nlp.called
     /\ ~IsEmptyText(nlp.user_answer) /\ nlp.user_answer.t = "str"
     /\ ~IsEmptyText(nlp.reference_answer) /\ nlp.reference_answer.t = "str"
     /\ nlp.embed.raises_at = 0)
    => nlp.out.feedback = TierSentence(nlp.out.score)

(***************************************************************************)
(* C22                                                                     *)
(***************************************************************************)

\* C22: get_session_feedback may be called at any time, also while an
\* analyze_frame call on another thread is part-way through its session
\* update: every report it returns is computed from a session in which the
\* confidence, nervousness, engagement, eye_contact and emotions lists all
\* have the length face_present_count.
C22_ReportFromAlignedSession ==
    (report # NoReport /\ session.total_analyzed > 0)
    => /\ Len(session.confidence) = session.face_present_count
       /\ Len(session.nervousness) = session.face_present_count
       /\ Len(session.engagement) = session.face_present_count
       /\ Len(session.eye_contact) = session.face_present_count
       /\ Len(session.emotions) = session.face_present_count

(***************************************************************************)
(* C23                                                                     *)
(***************************************************************************)

\* the threads whose get_instance call has returned
Returned == {t \in 1..MaxThreads : stt.threads[t].pc = "done"}

\* the threads whose get_instance call ended with the exception of a load
Failed == {t \in 1..MaxThreads : stt.threads[t].pc = "raised"}

C24_AlwaysFiveQuestions ==
    questions.called => Len(questions.out) = 5

(***************************************************************************)
(* C25                                                                     *)
(***************************************************************************)

\* C25: an analyze_frame call that ends with is_face_present false (no face
\* region, or a failed analysis) adds 1 to total_analyzed and to frame_count
\* and leaves face_present_count, the confidence, nervousness, engagement,
\* eye_contact and emotions lists, the session start time and the emotion
\* history as they were.
C25_NoFaceFrameOnlyCounts ==
    [][ (/\ frame_count' = frame_count + 1
         /\ "is_face_present" \in DOMAIN frame_result'
         /\ ~frame_result'.is_face_present)
        => /\ session'.total_analyzed = session.total_analyzed + 1
           /\ session'.face_present_count = session.face_present_count
           /\ session'.confidence = session.confidence
           /\ session'.nervousness = session.nervousness
           /\ session'.engagement = session.engagement
           /\ session'.eye_contact = session.eye_contact
           /\ session'.emotions = session.emotions
           /\ session'.start_time = session.start_time
           /\ emotion_history' = emotion_history ]_vars

\* C25 witness: a "happy" frame with a face, then a frame on which DeepFace
\* raised: two frames analysed, one face, one entry in every list and in the
\* history
C25_Witness ==
    /\ frame_count = 2
    /\ "is_face_present" \in DOMAIN frame_result
    /\ ~frame_result.is_face_present
    /\ frame_result.error # <<>>
    /\ session.total_analyzed = 2
    /\ session.face_present_count = 1
    /\ Len(session.confidence) = 1
    /\ session.emotions = <<"happy">>
    /\ emotion_history = <<"happy">>

(***************************************************************************)
(* C26                                                                     *)
(***************************************************************************)

\* The thresholds of a metric, highest first, in tenths
TierThresholds(metric) ==
    IF metric = "nervousness" THEN <<600, 400, 200, 0>>
    ELSE <<800, 600, 400, 0>>

\* The feedback entries of a session report
FeedbackFields ==
    {"confidence_feedback", "nervousness_feedback", "engagement_feedback",
     "eye_contact_feedback", "overall_feedback"}

\* C26: for each of confidence, nervousness, engagement, eye_contact and
\* overall and every score in [0,100], _qualitative returns the non-empty
\* sentence of the highest threshold that is <= score (thresholds 80/60/40/0,
\* and 60/40/20/0 for nervousness, tried from the highest downward); and
\* every feedback string of a session report is non-empty.
C26_QualitativeTiers ==
    /\ (/\ qualitative.called
        /\ qualitative.metric \in {"confidence", "nervousness", "engagement",
                                   "eye_contact", "overall"}
        /\ qualitative.score \in 0..1000)
       => LET tiers      == TEMPLATES[qualitative.metric]
              thresholds == TierThresholds(qualitative.metric)
              best       == CHOOSE i \in 1..4 :
                               /\ thresholds[i] <= qualitative.score
                               /\ \A j \in 1..4 :
                                     thresholds[j] <= qualitative.score
                                     => thresholds[j] <= thresholds[i]
          IN  /\ Len(tiers) = 4
              /\ \A i \in 1..4 : tiers[i].threshold = thresholds[i]
              /\ qualitative.out = tiers[best].text
              /\ qualitative.out # ""
    /\ (report # NoReport /\ "error" \notin DOMAIN report)
       => \A field \in FeedbackFields :
             field \in DOMAIN report /\ report[field] # ""

\* C26 witness: a nervousness score of exactly 60.0 gets the sentence of the
\* 60 tier, not one of the lower tiers it also satisfies
C26_Witness ==
    /\ qualitative.called
    /\ qualitative.metric = "nervousness"
    /\ qualitative.score = 600
    /\ qualitative.out = "High nervousness detected. Consider deep-breathing exercises before interviews."

(***************************************************************************)
(* C27                                                                     *)
(***************************************************************************)

\* A step of reset_history: no frame is analysed, no time passes, nothing is
\* reported, and the model is not left as it was
IsResetStep ==
    /\ frame_count' = frame_count
    /\ now' = now
    /\ report' = NoReport
    /\ <<session, emotion_history, frame_result, report>>'
         # <<session, emotion_history, frame_result, report>>

\* C27: immediately after reset_history the emotion history is empty,
\* total_analyzed and face_present_count are 0, every metric list is empty
\* and the session clock starts at the time of the reset; the history never
\* holds more labels than face frames were analysed since the reset, so a
\* frame from before it contributes to no later stabilised label or report;
\* and a report asked for while total_analyzed is still 0 is the
\* empty-session result.
C27_ResetDiscardsEverything ==
    [][ /\ IsResetStep
           => /\ emotion_history' = <<>>
              /\ session'.total_analyzed = 0
              /\ session'.face_present_count = 0
              /\ session'.confidence = <<>>
              /\ session'.nervousness = <<>>
              /\ session'.engagement = <<>>
              /\ session'.eye_contact = <<>>
              /\ session'.emotions = <<>>
              /\ session'.start_time = now
        /\ Len(emotion_history') = Min2(session'.face_present_count, history_size)
        /\ report' = NoReport \/ session'.total_analyzed > 0
           \/ DOMAIN report' = {"error"} ]_vars

\* C27 witness: two frames, a tick of the clock, reset_history, and one
\* "fear" frame: the session holds that frame only, its clock starts at the
\* reset, and the history (of capacity 2) holds "fear" alone
C27_Witness ==
    /\ frame_count = 3
    /\ history_size = 2
    /\ session.total_analyzed = 1
    /\ session.face_present_count = 1
    /\ session.start_time = 1
    /\ session.emotions = <<"fear">>
    /\ emotion_history = <<"fear">>

(***************************************************************************)
(* C28                                                                     *)
(***************************************************************************)

\* C28: when at least one frame was analysed and none had a face
\* (total_analyzed > 0, face_present_count = 0), get_session_feedback does
\* not signal the empty session: it returns a full report with
\* face_presence_rate 0, all four averages 0.0, an empty
\* emotion_distribution, overall_score exactly 25.0 and the "very calm"
\* nervousness sentence.
C28_FacelessSessionScores25 ==
    (/\ report # NoReport
     /\ session.total_analyzed > 0
     /\ session.face_present_count = 0)
    => /\ "error" \notin DOMAIN report
       /\ ScoreFields \subseteq DOMAIN report
       /\ report.total_frames_analyzed = session.total_analyzed
       /\ report.face_presence_rate = 0
       /\ report.avg_confidence = 0
       /\ report.avg_nervousness = 0
       /\ report.avg_engagement = 0
       /\ report.avg_eye_contact = 0
       /\ DOMAIN report.emotion_distribution = {}
       /\ report.overall_score = 250
       /\ report.nervousness_feedback
            = "Very calm and composed. Minimal signs of nervousness - great job!"

\* C28 witness: two frames without a face, then the report
C28_Witness ==
    /\ report # NoReport
    /\ session.total_analyzed = 2
    /\ session.face_present_count = 0
    /\ report.overall_score = 250
    /\ report.face_presence_rate = 0
    /\ report.overall_feedback
         = "Needs improvement. Review each metric and practice targeted exercises."

(***************************************************************************)
(* C29                                                                     *)
(***************************************************************************)

\* The sentences of each of the five places of the vocal feedback list
VocalSentences ==
    << {"Your speech is clear and well-articulated.",
        "Your speech clarity is moderate. Try to enunciate words more distinctly.",
        "Your speech clarity needs improvement. Focus on pronouncing each word clearly."},
       {"You sound confident and composed.",
        "Your confidence level is fair. Try to maintain a steady volume and pace.",
        "You sound uncertain. Practice speaking with a consistent volume and tempo."},
       {"Your tone is quite monotone. Vary your pitch to keep the listener engaged.",
        "Great tonal variety - your voice sounds engaging and expressive.",
        "Your tone is acceptable but could be more dynamic and energetic."},
       {"Frequent hesitations detected. Practice to reduce pauses and filler moments.",
        "Some hesitation is present. Try to reduce unnecessary pauses.",
        "Minimal hesitation - your speech flows well."},
       {"Signs of vocal stress detected. Deep breathing before speaking may help.",
        "Mild vocal stress indicators present. Stay relaxed and breathe regularly.",
        "Your voice sounds relaxed and natural."} >>

\* In a result, a monotone_level of 70 or more goes with a tone_score below
\* 70 and the "quite monotone" sentence, and the feedback list has its five
\* sentences in the order clarity, confidence, tone, hesitation, stress
ToneFeedbackConsistent(result) ==
    LET tone == result.tone
    IN  /\ tone.details.monotone_level >= 700 => tone.tone_score < 700
        /\ ~(tone.details.monotone_level >= 700 /\ tone.tone_score >= 700)
        /\ Len(result.feedback) = 5
        /\ \A k \in 1..5 : result.feedback[k] \in VocalSentences[k]
        /\ tone.details.monotone_level >= 700
           <=> result.feedback[3] = "Your tone is quite monotone. Vary your pitch to keep the listener engaged."

\* C29 as stated: in every vocal scoring result monotone_level = 100 -
\* pitch_expressiveness, monotone_level >= 70 implies tone_score < 70, the
\* "quite monotone" and "great tonal variety" conditions never both hold,
\* and the feedback list has exactly five sentences in the order clarity,
\* confidence, tone, hesitation, stress.
C29_MonotoneIsExactComplement ==
    (voice.called /\ ~voice.out.raised)
    => LET result == voice.out.result[1]
       IN  /\ result.tone.details.monotone_level
                = 1000 - result.tone.details.pitch_expressiveness
           /\ ToneFeedbackConsistent(result)

\* C29 amended: monotone_level and pitch_expressiveness are roundings to one
\* decimal of monotone and of expressiveness = 100 - monotone, taken
\* separately, so monotone_level differs from 100 - pitch_expressiveness by
\* at most 0.1; monotone_level >= 70 implies tone_score < 70, the two tone
\* conditions never both hold, and the feedback list has exactly five
\* sentences in the order clarity, confidence, tone, hesitation, stress.
C29_MonotoneIsRoundedComplement ==
    (voice.called /\ ~voice.out.raised)
    => LET result == voice.out.result[1]
           traits == ToneTraits(voice.clip.sig,
                                IF voice.quick THEN DUMMY_W2V
                                ELSE voice.clip.w2v.features)
       IN  /\ traits.monotone = Points(100) - traits.expressiveness
           /\ 2 * Abs(84 * result.tone.details.monotone_level - traits.monotone) <= 84
           /\ 2 * Abs(84 * result.tone.details.pitch_expressiveness
                      - traits.expressiveness) <= 84
           /\ Abs(result.tone.details.monotone_level
                  - (1000 - result.tone.details.pitch_expressiveness)) <= 1
           /\ ToneFeedbackConsistent(result)

\* C29 witness: a flat voice (expressiveness exactly 30, monotone_level 70.0)
\* that is loud, warm and rated fully expressive by the deep summary: the
\* tone_score is 68.5, the highest a monotone voice can get, and the
\* sentence is the "quite monotone" one
C29_Witness ==
    /\ voice.called
    /\ ~voice.out.raised
    /\ voice.clip.sig.pitch_cv = 120
    /\ voice.out.result[1].tone.details.monotone_level = 700
    /\ voice.out.result[1].tone.details.pitch_expressiveness = 300
    /\ voice.out.result[1].tone.tone_score = 685
    /\ voice.out.result[1].feedback[3]
         = "Your tone is quite monotone. Vary your pitch to keep the listener engaged."


\* C30: on a frame with a face analyze_frame appends the frame's raw
\* dominant label to the emotion history before stabilising: after the call
\* the newest buffer entry is raw_emotion, and the reported emotion is the
\* most common label of that buffer (the smallest in string order on a tie),
\* hence a label in the buffer, and is what the call appended to the
\* session's emotions list.  On a frame without a face emotion and raw_emotion
\* are both "neutral" and the emotions list is left as it was.
C30_EmotionIsStabilisedAfterAppend ==
    [][ (/\ frame_count' = frame_count + 1
         /\ "is_face_present" \in DOMAIN frame_result')
        => LET buf == emotion_history'
               out == frame_result'.emotion
               raw == frame_result'.raw_emotion
           IN  IF frame_result'.is_face_present
               THEN /\ buf # <<>>
                    /\ buf[Len(buf)] = raw
                    /\ \E i \in 1..Len(buf) : buf[i] = out
                    /\ \A l \in LabelSet : Count(buf, l) <= Count(buf, out)
                    /\ \A l \in LabelSet :
                         (l # out /\ Count(buf, l) = Count(buf, out))
                         => LexLess(Spelling(out), Spelling(l))
                    /\ session'.emotions = Append(session.emotions, out)
               ELSE /\ out = "neutral"
                    /\ raw = "neutral"
                    /\ session'.emotions = session.emotions ]_vars

\* C30 witness: a "fear" frame, then a "happy" frame, both with a face and a
\* history of two: the buffer holds the current raw label "happy", which ties
\* with "fear", and the call reported and recorded "fear"
C30_Witness ==
    /\ "is_face_present" \in DOMAIN frame_result
    /\ frame_result.is_face_present
    /\ frame_result.raw_emotion = "happy"
    /\ frame_result.emotion = "fear"
    /\ emotion_history = <<"fear", "happy">>
    /\ session.emotions = <<"fear", "fear">>

=============================================================================
